---- MODULE Spec2Model ----
(***************************************************************************)
(* Model of the request router of web3-proxy (web3-proxy/src/app.rs):      *)
(* Web3ProxyApp::proxy_web3_rpc, get_cached_response and                   *)
(* proxy_web3_rpc_request, with the response cache (a LinkedHashMap under  *)
(* an RwLock), the in-flight table incoming_requests (a DashMap of watch   *)
(* receivers) and the canonical head hash read from balanced_rpcs.         *)
(*                                                                         *)
(* The tokio runtime is multi-threaded (main.rs builds a multi-thread      *)
(* runtime), so requests interleave at every access of a shared structure, *)
(* not only at awaits.  One action is one such access.                     *)
(***************************************************************************)
EXTENDS Naturals, Sequences, FiniteSets, TLC

(* ------------------------------ bounds --------------------------------- *)

\* number of client requests of one run
NumReqs == 3
\* number of distinct canonical head hashes
NumHeads == 2
\* number of times the canonical head may change in one run
MaxHeadChanges == 1
\* RESPONSE_CACHE_CAP of app.rs:40 is 1024; the model scales it down so that
\* the requests of one run can fill the cache and reach the eviction branch
\* of the cache write
RESPONSE_CACHE_CAP == 2

\* number of newHeads subscription tasks
NumSubs == 2
\* number of eth_subscribe calls in one run
MaxSubscribeCalls == 11
\* number of heads the head-block tracker emits in one run
MaxEmits == 3
\* number of transaction states broadcast in one run
MaxTxEvents == 2
\* capacity of the sink of a subscribed client
SinkCap == 1
\* capacity of the pending_tx broadcast channel (line 258), 16 in the
\* source, scaled so that a receiver can lag within MaxTxEvents
PENDING_TX_CAP == 1
\* number of upstreams of the private pool
NumPrivate == 2
\* number of configurations the file watcher sends in one run
MaxReloads == 2
\* number of upstreams of the balanced pool that best() selects from
NumRpcs == 3
\* largest soft_limit of an upstream
MaxSoftLimit == 3
\* largest number of requests in flight on one upstream
MaxInflight == 1
\* number of calls of the rate limit functions in one run
NumCallers == 2
\* the lifetime of a cached user record, in ticks of the clock
\* (Duration::from_secs(60))
USER_CACHE_TTL == 2
\* the last tick of the clock
MaxTime == 3

Reqs == 1..NumReqs
Heads == 1..NumHeads
NoReq == 0
PrivateRpcs == 1..NumPrivate
\* chain_id of the running app (Web3ProxyApp.chain_id) and the chain ids a new
\* configuration may carry
ChainId == 1
ChainIds == { 1, 2 }

(* ------------------------------ inputs --------------------------------- *)

\* the methods clients send in the model: one head-dependent read, one
\* fan-query, the private send, one method of the deny list and one admin_
\* method that is not on the deny list
Methods ==
    { "eth_blockNumber", "eth_getTransactionByHash", "eth_sendRawTransaction",
      "personal_sign", "admin_peers" }

\* the serialized params of a request (request.params.map(|x| x.to_string()))
ParamStrings == { "[]" }

\* `inputs` holds what the environment sends in a run: the requests
\* << method, params >> of the clients and the events << "upstream", e >>
\* of the upstreams

\* the requests (method, params) clients send in a run of Spec
Inputs == Methods \X ParamStrings

\* the requests clients send in a run of KeySpec: a head-independent method,
\* and one head-dependent method with two texts of the same JSON params
\* (params is a raw JSON value, its string is the text the client sent)
KeyInputs ==
    { << "eth_chainId", "[]" >>, << "eth_blockNumber", "[]" >>,
      << "eth_blockNumber", "[ ]" >>, << "eth_sendRawTransaction", "[]" >>,
      << "personal_sign", "[]" >> }

\* first arm of the match of proxy_web3_rpc_request
ForbiddenMethods ==
    { "admin_addPeer", "admin_datadir", "admin_startRPC", "admin_startWS",
      "admin_stopRPC", "admin_stopWS", "debug_chaindbCompact",
      "debug_freezeClient", "debug_goTrace", "debug_mutexProfile",
      "debug_setBlockProfileRate", "debug_setGCPercent", "debug_setHead",
      "debug_setMutexProfileFraction", "debug_standardTraceBlockToFile",
      "debug_standardTraceBadBlockToFile", "debug_startCPUProfile",
      "debug_startGoTrace", "debug_stopCPUProfile", "debug_stopGoTrace",
      "debug_writeBlockProfile", "debug_writeMemProfile",
      "debug_writeMutexProfile", "les_addBalance", "les_setClientParams",
      "les_setDefaultParams", "miner_setExtra", "miner_setGasPrice",
      "miner_start", "miner_stop", "miner_setEtherbase", "miner_setGasLimit",
      "personal_importRawKey", "personal_listAccounts", "personal_lockAccount",
      "personal_newAccount", "personal_unlockAccount",
      "personal_sendTransaction", "personal_sign", "personal_ecRecover" }

\* second arm of the match
IsSendRaw(m) == m = "eth_sendRawTransaction"

\* inner match of the catch-all arm: these go to private_rpcs
IsFanQuery(m) == m \in { "eth_getTransactionByHash", "eth_getTransactionReceipt" }

(* ------------------------------- state --------------------------------- *)

VARIABLES
    inputs,             \* the requests clients send in this run
    head,               \* balanced_rpcs.get_head_block_hash()
    headChanges,        \* how often the head has changed
    response_cache,     \* LinkedHashMap in insertion order: Seq of [key, resp]
    incoming_requests,  \* DashMap: cache key -> request whose receiver is stored
    pc,                 \* position of every request in proxy_web3_rpc_request
    method,             \* request.method
    params,             \* request.params as string
    cache_key,          \* the key computed by get_cached_response
    response,           \* the response a request holds (cached or upstream)
    other_incoming_rx,  \* the request whose receiver a waiter cloned, or NoReq
    sent,               \* watch channel of a request: a value was sent
    closed,             \* watch channel of a request: the sender is dropped
    result,             \* what proxy_web3_rpc returned to the client
    calls,              \* pool a request dispatched to: "none", "balanced", "private"
    via,                \* path that produced the result
    doneHead,           \* canonical head at the moment the request completed
    dispatched,         \* <<key, resp>> of every successful cacheable dispatch
    targets,            \* private upstreams a broadcast request was sent to
    healthy,            \* the private upstreams that are Healthy
    balanced_rpcs,      \* the connection set held by self.balanced_rpcs
    private_rpcs,       \* the connection set held by self.private_rpcs
    config_task,        \* position of the task of spawn_with_watched_config
    new_config,         \* the configuration update_config is working on
    reloads,            \* configurations sent by the file watcher so far
    reload_result,      \* how the last update_config ended
    applied,            \* the last configuration that update_config applied
    process,            \* the process of main: "running" or "exited"
    mode,               \* the requests are "single" calls or one "batch"
    batch_result,       \* what proxy_web3_rpc returned for the batch
    next_subscription_id, \* AtomicUsize of the app
    subscriptions,      \* what every eth_subscribe call got, in call order
    head_block,         \* value of the head_block watch channel
    head_version,       \* version of the head_block watch channel
    tx_log,             \* the TxStates sent on the pending_tx broadcast channel
    sub_seen,           \* task: the watch version, or the number of broadcast
                        \* states, that its receiver has seen
    sub_start,          \* task: the number of upstream events at subscription
    sub_pc,             \* task: "next" (in next()), "send" (in send_async)
                        \* or "ended"
    sub_msg,            \* task: the notification it is sending, if any
    sub_sink,           \* task: the notifications its sink has accepted
    sub_drained,        \* task: how many of them the client has taken, or
                        \* Dropped
    sub_aborted,        \* task: the number of upstream events when its abort
                        \* handle fired, or NotAborted
    upstreams,          \* balanced pool: soft_limit, inflight_count, health and
                        \* head of every upstream
    best_rpc,           \* what the last call of best() saw and returned
    pool_handles,       \* how the tasks of the two pools stand: "running",
                        \* or ended "ok", "err" or "panic"
    frontend_handle,    \* the same for the task of frontend::run
    exit_code,          \* the exit code of the process, or NotExited
    now,                \* the clock (Instant::now), in ticks
    user_keys,          \* the user_keys table of the database, by api key
    user_cache,         \* self.user_cache, by api key
    limit_calls,        \* the calls of rate_limit_by_ip and rate_limit_by_key
    configured,         \* which of frontend_ip_rate_limiter,
                        \* frontend_key_rate_limiter and db_conn are Some
    handles,            \* FuturesUnordered of flatten_handles: how the task
                        \* of every handle stands: "running", or ended "ok",
                        \* "err" or "panic"
    flatten,            \* the call of flatten_handles: the handles next()
                        \* has yielded and what the call returned
    admin_receipt,      \* table admin_increase_balance_receipt: rows of
                        \* [deposit_to_user_id, amount]
    chain_receipt,      \* table increase_on_chain_balance_receipt: the same
    rpc_key,            \* table rpc_key: rows of [user_id]; the id is the
                        \* index of the row
    accounting          \* table rpc_accounting_v2: rows of [rpc_key_id,
                        \* sum_credits_used, sum_incl_free_credits_used]

\* the state of the router
routerVars == << head, headChanges, response_cache, incoming_requests, pc,
                 method, params, cache_key, response, other_incoming_rx, sent,
                 closed, result, calls, via, doneHead, dispatched, targets >>
\* the pools and the configuration task
poolVars == << healthy, balanced_rpcs, private_rpcs, config_task, new_config,
               reloads, reload_result, applied, process >>
\* the subscriptions
subVars == << next_subscription_id, subscriptions, head_block, head_version,
              tx_log, sub_seen, sub_start, sub_pc, sub_msg, sub_sink,
              sub_drained, sub_aborted >>
\* the upstreams that best() selects from
balanceVars == << upstreams, best_rpc >>
\* what neither the router, the pools nor the subscriptions change
\* the handles that the root task of main watches, and its exit code
mainVars == << pool_handles, frontend_handle, exit_code >>
\* the clock, the database and the caches of the frontend rate limits
limitVars == << now, user_keys, user_cache, limit_calls, configured >>
\* the handles given to one call of flatten_handles, and the call
flattenVars == << handles, flatten >>
\* the tables that Balance::try_from_db reads
creditVars == << admin_receipt, chain_receipt, rpc_key, accounting >>
sideVars == << balanceVars, mainVars, limitVars, flattenVars, creditVars >>
\* what no step of a request changes
envVars == << inputs, sideVars, poolVars, mode, batch_result, subVars >>

vars == << inputs, sideVars, routerVars, poolVars, mode, batch_result,
          subVars >>

NoKey == << 0, "", "" >>
NoResp == [ id |-> NoReq, body |-> 0 ]
NoResult == [ ok |-> FALSE, err |-> "pending", resp |-> NoResp ]

Ok(resp) == [ ok |-> TRUE, err |-> "", resp |-> resp ]
Err(e) == [ ok |-> FALSE, err |-> e, resp |-> NoResp ]

\* the batch has not returned
NoBatchResult == [ ok |-> FALSE, err |-> "pending", resps |-> << >> ]

\* newHeads subscription tasks
Subs == 1..NumSubs
\* no task runs in this slot / the task has not polled its stream yet
NotSpawned == 0 - 2
NotPolled == 0 - 1
\* the task holds no notification
NoMsg == << >>

\* the client of the task has dropped the receiver of its sink
Dropped == 0 - 1
\* the abort handle of the task has not fired
NotAborted == 0 - 1
\* the head hash that balanced_rpcs holds before the tracker has published a
\* canonical head: that of the default value the channels are created with
\* (line 256)
DEFAULT_HEAD == 0 - 1

(* ------------------------- the response cache -------------------------- *)

\* LinkedHashMap::get
CacheHas(cache, key) == \E i \in 1..Len(cache) : cache[i].key = key

CacheGet(cache, key) ==
    cache[CHOOSE i \in 1..Len(cache) : cache[i].key = key].resp

CacheWithout(cache, key) == SelectSeq(cache, LAMBDA e : e.key # key)

\* LinkedHashMap::insert: the entry goes to the back; an entry already stored
\* under the key is replaced
CacheInsert(cache, key, resp) ==
    Append(CacheWithout(cache, key), [ key |-> key, resp |-> resp ])

\* the insert of lines 758-759 without the pop_front of lines 761-765
CacheWrite_NoEvict(cache, key, resp) == CacheInsert(cache, key, resp)


\* lines 756-765: insert, then pop_front when len() >= RESPONSE_CACHE_CAP
CacheWrite(cache, key, resp) ==
    LET inserted == CacheInsert(cache, key, resp)
    IN  IF Len(inserted) >= RESPONSE_CACHE_CAP THEN Tail(inserted) ELSE inserted

(* ------------------------- the in-flight table ------------------------- *)

\* DashMap::remove: removes whatever receiver is stored under the key
InflightRemove(table, key) == [ k \in (DOMAIN table) \ { key } |-> table[k] ]

\* VacantEntry::insert
InflightInsert(table, key, r) ==
    [ k \in (DOMAIN table) \cup { key } |-> IF k = key THEN r ELSE table[k] ]

\* a request that still holds a clone of the receiver of request o
HoldsClone(w, o) ==
    other_incoming_rx[w] = o /\ pc[w] \in { "waiting", "recheck", "waithit",
                                             "inflight", "write", "cleanup",
                                             "signal" }

\* true when watch::Sender::send of request o finds a receiver: its own
\* incoming_rx (kept when the entry was occupied), the receiver stored in the
\* table, or a clone held by a waiter
HasReceivers(o) ==
    \/ other_incoming_rx[o] # NoReq
    \/ \E k \in DOMAIN incoming_requests : incoming_requests[k] = o
    \/ \E w \in Reqs : HoldsClone(w, o)

\* a wait that only a sent value ends: a dropped sender wakes nobody
ChangedReturns_OnlyOnSend(o) == sent[o]

\* watch::Receiver::changed on a clone of the receiver of request o returns
\* when a value was sent after the clone's version or the sender is dropped
ChangedReturns(o) == sent[o] \/ closed[o]

(* -------------------------------- Init --------------------------------- *)

\* Web3ProxyApp::spawn: empty cache, empty in-flight table, no request yet
InitFields ==
    /\ headChanges = 0
    /\ response_cache = << >>
    /\ incoming_requests = [ k \in { } |-> NoReq ]
    /\ pc = [ r \in Reqs |-> "idle" ]
    /\ method = [ r \in Reqs |-> "" ]
    /\ params = [ r \in Reqs |-> "" ]
    /\ cache_key = [ r \in Reqs |-> NoKey ]
    /\ response = [ r \in Reqs |-> NoResp ]
    /\ other_incoming_rx = [ r \in Reqs |-> NoReq ]
    /\ sent = [ r \in Reqs |-> FALSE ]
    /\ closed = [ r \in Reqs |-> FALSE ]
    /\ result = [ r \in Reqs |-> NoResult ]
    /\ calls = [ r \in Reqs |-> "none" ]
    /\ via = [ r \in Reqs |-> "none" ]
    /\ doneHead = [ r \in Reqs |-> 0 ]
    /\ dispatched = { }
    /\ targets = [ r \in Reqs |-> { } ]
    /\ healthy = PrivateRpcs
    /\ balanced_rpcs = 0
    /\ private_rpcs = 0
    /\ config_task = "waiting"
    /\ new_config = 0
    /\ reloads = 0
    /\ reload_result = "none"
    /\ applied = 0
    /\ process = "running"
    /\ batch_result = NoBatchResult
    /\ next_subscription_id = 1
    /\ subscriptions = << >>
    /\ head_block = 0
    /\ head_version = 0
    /\ tx_log = << >>
    /\ sub_seen = [ s \in Subs |-> NotSpawned ]
    /\ sub_start = [ s \in Subs |-> 0 ]
    /\ sub_pc = [ s \in Subs |-> "ended" ]
    /\ sub_msg = [ s \in Subs |-> NoMsg ]
    /\ sub_sink = [ s \in Subs |-> << >> ]
    /\ sub_drained = [ s \in Subs |-> 0 ]
    /\ sub_aborted = [ s \in Subs |-> NotAborted ]

\* no upstream selection has been made
NoBest == [ rpc |-> 0, seen |-> << >> ]

\* the process of main is running
NotExited == 0 - 1
\* the tasks behind the handles that Web3ProxyApp::spawn returns (lines 278,
\* 298)
PoolTasks == { "balanced", "private" }

\* the api keys and the ip addresses of the clients; the user of key k has
\* user_id k
UserKeys == { 1 }
Ips == { 1 }
Callers == 1..NumCallers
\* requests_per_minute of a key without limit (u64::MAX)
U64_MAX == 2147483647
\* Option::None of user_count_per_period
NoLimit == 0 - 1
\* no record in user_cache
NoUser == [ expires_at |-> 0 - 1, user_id |-> 0 - 1,
            user_count_per_period |-> 0 - 1 ]
\* a caller that has not called yet
NoCall == [ pc |-> "idle", kind |-> "none", arg |-> 0, at |-> 0,
            returned |-> << >>,
            saw |-> NoUser, queried |-> FALSE, fetched |-> << >>,
            user_data |-> NoUser, throttle |-> "none", result |-> << >> ]
\* the row of a key that has been in the table for longer than a lifetime
\* of the cache
OldRow(active, rpm) ==
    [ active |-> active, requests_per_minute |-> rpm,
      changed_at |-> 0 - (USER_CACHE_TTL + 1) ]

\* flatten_handles has not been called
InitFlattenIdle ==
    /\ handles = << >>
    /\ flatten = [ taken |-> { }, result |-> "idle" ]

\* the tables of the balance are empty
InitCreditIdle ==
    /\ admin_receipt = << >>
    /\ chain_receipt = << >>
    /\ rpc_key = << >>
    /\ accounting = << >>

\* the rate limit functions have not been called
InitLimitCalls ==
    /\ now = 0
    /\ user_keys = [ k \in UserKeys |-> OldRow(TRUE, 1) ]
    /\ user_cache = [ k \in UserKeys |-> NoUser ]
    /\ limit_calls = [ c \in Callers |-> NoCall ]

\* the app of a configuration with redis and a database: both rate limiters
\* and the connection are Some
InitLimits ==
    /\ InitLimitCalls
    /\ configured = [ frontend_ip_rate_limiter |-> TRUE,
                      frontend_key_rate_limiter |-> TRUE, db_conn |-> TRUE ]

\* a balanced pool of idle, Healthy upstreams at the canonical head; every
\* task that main watches is running; no rate limit call
InitSide ==
    /\ InitLimits
    /\ InitCreditIdle
    /\ InitFlattenIdle
    /\ pool_handles = [ t \in PoolTasks |-> "running" ]
    /\ frontend_handle = "running"
    /\ exit_code = NotExited
    /\ upstreams = [ u \in 1..NumRpcs |->
                       [ soft_limit |-> 1, inflight_count |-> 0,
                         healthy |-> TRUE, behind |-> 0 ] ]
    /\ best_rpc = NoBest

\* the app once the head-block tracker has published a first canonical head
InitApp == head = 1 /\ InitFields /\ InitSide

Init == InitApp /\ inputs = Inputs /\ mode = "single"

\* the request returns: the client gets res, the sender incoming_tx is dropped
Return(r, res, path) ==
    /\ pc' = [ pc EXCEPT ![r] = "done" ]
    /\ result' = [ result EXCEPT ![r] = res ]
    /\ via' = [ via EXCEPT ![r] = path ]
    /\ doneHead' = [ doneHead EXCEPT ![r] = head ]

(* ------------------------------- actions ------------------------------- *)

\* the head-block tracker publishes a new canonical head
HeadChange ==
    /\ headChanges < MaxHeadChanges
    /\ \E h \in Heads \ { head } : head' = h
    /\ headChanges' = headChanges + 1
    /\ UNCHANGED << response_cache, incoming_requests, pc, method, params,
                    cache_key, response, other_incoming_rx, sent, closed,
                    result, calls, via, doneHead, dispatched >>
    /\ UNCHANGED << envVars, targets >>

\* the pool the catch-all arm dispatches to (lines 740-753): the fan-query
\* methods go to private_rpcs, everything else to the best balanced rpc
Pool(m) == IF IsFanQuery(m) THEN "private" ELSE "balanced"

\* proxy_web3_rpc with a single request: the request enters
\* proxy_web3_rpc_request under timeout(max_time, ...).  The JSON-RPC id of
\* request r is r.  Requests are numbered in arrival order.
Arrives(r, m, p) ==
    /\ process = "running"
    /\ pc[r] = "idle"
    /\ \A q \in Reqs : q < r => pc[q] # "idle"
    /\ method' = [ method EXCEPT ![r] = m ]
    /\ params' = [ params EXCEPT ![r] = p ]

\* lines 637-679: a method of the deny list returns Err("unimplemented")
RejectForbidden(r) ==
    /\ \E i \in inputs :
          /\ i[1] \in ForbiddenMethods
          /\ Arrives(r, i[1], i[2])
    /\ Return(r, Err("unimplemented"), "rejected")
    /\ UNCHANGED << head, headChanges, response_cache, incoming_requests,
                    cache_key, response, other_incoming_rx, sent, closed,
                    calls, dispatched >>
    /\ UNCHANGED << envVars, targets >>

\* try_send_all_upstream_servers: the request is dispatched to every upstream
\* that all() returns, the Healthy ones
BroadcastTargets == healthy

\* lines 680-687: eth_sendRawTransaction goes to every private rpc, without
\* the cache and without the in-flight table
SendRawTransaction(r) ==
    /\ \E i \in inputs :
          /\ i[1] \notin ForbiddenMethods
          /\ IsSendRaw(i[1])
          /\ Arrives(r, i[1], i[2])
    /\ pc' = [ pc EXCEPT ![r] = "inflight" ]
    /\ calls' = [ calls EXCEPT ![r] = "private" ]
    /\ targets' = [ targets EXCEPT ![r] = BroadcastTargets ]
    /\ UNCHANGED << head, headChanges, response_cache, incoming_requests,
                    cache_key, response, other_incoming_rx, sent, closed,
                    result, via, doneHead, dispatched >>
    /\ UNCHANGED envVars

\* the catch-all arm, line 691, and get_cached_response, lines 596-603: the
\* key is built from the head hash read now
ComputeKey(r) ==
    /\ \E i \in inputs :
          /\ i[1] \notin ForbiddenMethods
          /\ ~IsSendRaw(i[1])
          /\ Arrives(r, i[1], i[2])
          /\ cache_key' = [ cache_key EXCEPT ![r] = << head, i[1], i[2] >> ]
    /\ pc' = [ pc EXCEPT ![r] = "lookup" ]
    /\ UNCHANGED << head, headChanges, response_cache, incoming_requests,
                    response, other_incoming_rx, sent, closed,
                    result, calls, via, doneHead, dispatched >>
    /\ UNCHANGED << envVars, targets >>

\* a read guard bound to a variable that lives to the end of the function: it
\* would still be held during the upstream call of lines 740-753
LocksHeld_GuardOutlivesIfLet(r) ==
    IF pc[r] \in { "waithit", "inflight", "write" }
       /\ other_incoming_rx[r] # NoReq
    THEN { "response_cache.read" }
    ELSE { }

\* the locks a request holds between two steps. The DashMap entry guard of
\* line 702 is dropped with the match (line 711), the read guard of
\* get_cached_response (line 605) with its if-let, the write guard of line 756
\* by the drop of line 765: all inside one step. Only the read guard of
\* line 720 spans steps: it lives until the end of the if-let (line 738), and
\* the hit branch removes the in-flight entry and sends while holding it
LocksHeld(r) ==
    IF pc[r] = "waithit" THEN { "response_cache.read" } ELSE { }

\* the await points of proxy_web3_rpc_request: line 717 (changed().await)
\* and lines 740-753 (the upstream call)
Suspended(r) == pc[r] \in { "waiting", "inflight" }

\* a writer of the response cache waits while a reader holds the RwLock
CacheReadLocked ==
    \E q \in Reqs : "response_cache.read" \in LocksHeld(q)

\* get_cached_response, lines 605-619: the cache read
CacheLookup(r) ==
    /\ pc[r] = "lookup"
    /\ IF CacheHas(response_cache, cache_key[r])
       THEN /\ response' = [ response EXCEPT
                               ![r] = CacheGet(response_cache, cache_key[r]) ]
            /\ pc' = [ pc EXCEPT ![r] = "hit" ]
       ELSE /\ response' = response
            /\ pc' = [ pc EXCEPT ![r] = "entry" ]
    /\ UNCHANGED << head, headChanges, response_cache, incoming_requests,
                    method, params, cache_key, other_incoming_rx, sent, closed,
                    result, calls, via, doneHead, dispatched >>
    /\ UNCHANGED << envVars, targets >>

\* lines 692-696: on a hit the in-flight entry of the key is removed and the
\* cached response is returned as it is
CacheHitReturn(r) ==
    /\ pc[r] = "hit"
    /\ incoming_requests' = InflightRemove(incoming_requests, cache_key[r])
    /\ Return(r, Ok(response[r]), "hit")
    /\ UNCHANGED << head, headChanges, response_cache, method, params,
                    cache_key, response, other_incoming_rx, sent, closed,
                    calls, dispatched >>
    /\ UNCHANGED << envVars, targets >>

\* lines 702-711: DashMap::entry; an occupied entry is cloned and the request
\* waits on it, a vacant one takes the receiver of this request, which goes on
\* to the upstream call of lines 740-753
RegisterOrAttach(r) ==
    /\ pc[r] = "entry"
    /\ IF cache_key[r] \in DOMAIN incoming_requests
       THEN /\ other_incoming_rx' = [ other_incoming_rx EXCEPT
                                        ![r] = incoming_requests[cache_key[r]] ]
            /\ incoming_requests' = incoming_requests
            /\ pc' = [ pc EXCEPT ![r] = "waiting" ]
            /\ calls' = calls
       ELSE /\ other_incoming_rx' = other_incoming_rx
            /\ incoming_requests' =
                   InflightInsert(incoming_requests, cache_key[r], r)
            /\ pc' = [ pc EXCEPT ![r] = "inflight" ]
            /\ calls' = [ calls EXCEPT ![r] = Pool(method[r]) ]
    /\ UNCHANGED << head, headChanges, response_cache, method, params,
                    cache_key, response, sent, closed, result, via,
                    doneHead, dispatched >>
    /\ UNCHANGED << envVars, targets >>

\* line 717: other_incoming_rx.changed().await returns (Ok or Err, ignored)
Wake(r) ==
    /\ pc[r] = "waiting"
    /\ ChangedReturns(other_incoming_rx[r])
    /\ pc' = [ pc EXCEPT ![r] = "recheck" ]
    /\ UNCHANGED << head, headChanges, response_cache, incoming_requests,
                    method, params, cache_key, response, other_incoming_rx,
                    sent, closed, result, calls, via, doneHead, dispatched >>
    /\ UNCHANGED << envVars, targets >>

\* a waiter that fails together with the owner instead of making its own call
Recheck_FailOnMiss(r) ==
    /\ pc[r] = "recheck"
    /\ IF CacheHas(response_cache, cache_key[r])
       THEN /\ response' = [ response EXCEPT
                               ![r] = CacheGet(response_cache, cache_key[r]) ]
            /\ pc' = [ pc EXCEPT ![r] = "waithit" ]
            /\ UNCHANGED << result, via, doneHead, closed >>
       ELSE /\ response' = response
            /\ closed' = [ closed EXCEPT ![r] = TRUE ]
            /\ Return(r, Err("upstream"), "failed")
    /\ UNCHANGED << head, headChanges, response_cache, incoming_requests,
                    method, params, cache_key, other_incoming_rx, sent,
                    calls, dispatched >>
    /\ UNCHANGED << envVars, targets >>

\* line 720: the cache is read again under the key computed at arrival; on a
\* miss the request makes its own upstream call (lines 740-753)
Recheck(r) ==
    /\ pc[r] = "recheck"
    /\ IF CacheHas(response_cache, cache_key[r])
       THEN /\ response' = [ response EXCEPT
                               ![r] = CacheGet(response_cache, cache_key[r]) ]
            /\ pc' = [ pc EXCEPT ![r] = "waithit" ]
            /\ calls' = calls
       ELSE /\ response' = response
            /\ pc' = [ pc EXCEPT ![r] = "inflight" ]
            /\ calls' = [ calls EXCEPT ![r] = Pool(method[r]) ]
    /\ UNCHANGED << head, headChanges, response_cache, incoming_requests,
                    method, params, cache_key, other_incoming_rx, sent, closed,
                    result, via, doneHead, dispatched >>
    /\ UNCHANGED << envVars, targets >>

\* lines 721-730: remove the in-flight entry of the key, send on the own
\* channel (nobody else has a receiver of it), return the cached response
WaitHitReturn(r) ==
    /\ pc[r] = "waithit"
    /\ incoming_requests' = InflightRemove(incoming_requests, cache_key[r])
    /\ sent' = [ sent EXCEPT ![r] = TRUE ]
    /\ closed' = [ closed EXCEPT ![r] = TRUE ]
    /\ Return(r, Ok(response[r]), "waithit")
    /\ UNCHANGED << head, headChanges, response_cache, method, params,
                    cache_key, response, other_incoming_rx, calls, dispatched >>
    /\ UNCHANGED << envVars, targets >>

\* what try_send_best_upstream_server / try_send_all_upstream_servers return
\* on success: a JsonRpcForwardedResponse carrying the id of the request that
\* was sent and the upstream's answer, which depends on the upstream's head
UpstreamResponse(r) == [ id |-> r, body |-> head ]

\* lines 683-686 and 743-751: the upstream call returns Ok; a broadcast
\* returns the first success among the upstreams it was sent to
UpstreamOk(r) ==
    /\ pc[r] = "inflight"
    /\ IsSendRaw(method[r]) => targets[r] # { }
    /\ IF IsSendRaw(method[r])
       THEN /\ Return(r, Ok(UpstreamResponse(r)), "dispatch")
            /\ UNCHANGED << response, dispatched >>
       ELSE /\ response' = [ response EXCEPT ![r] = UpstreamResponse(r) ]
            /\ dispatched' = dispatched \cup { << cache_key[r], UpstreamResponse(r) >> }
            /\ pc' = [ pc EXCEPT ![r] = "write" ]
            /\ UNCHANGED << result, via, doneHead >>
    /\ UNCHANGED << head, headChanges, response_cache, incoming_requests,
                    method, params, cache_key, other_incoming_rx, sent, closed,
                    calls >>
    /\ UNCHANGED << envVars, targets >>

\* a failed call whose error is stored in the cache before it is returned
UpstreamErr_CachesError(r) ==
    /\ pc[r] = "inflight"
    /\ closed' = [ closed EXCEPT ![r] = TRUE ]
    /\ response_cache' =
          IF cache_key[r] # NoKey
          THEN CacheWrite(response_cache, cache_key[r], [ id |-> r, body |-> 0 ])
          ELSE response_cache
    /\ Return(r, Err("upstream"), "failed")
    /\ UNCHANGED << head, headChanges, incoming_requests,
                    method, params, cache_key, response, other_incoming_rx,
                    sent, calls, dispatched >>
    /\ UNCHANGED << envVars, targets >>

\* lines 683-686 and 745, 751: the upstream call returns Err and `?` returns
\* it; incoming_tx is dropped, the in-flight entry stays
UpstreamErr(r) ==
    /\ pc[r] = "inflight"
    /\ closed' = [ closed EXCEPT ![r] = TRUE ]
    /\ Return(r, Err("upstream"), "failed")
    /\ UNCHANGED << head, headChanges, response_cache, incoming_requests,
                    method, params, cache_key, response, other_incoming_rx,
                    sent, calls, dispatched >>
    /\ UNCHANGED << envVars, targets >>

\* lines 756-765: the response is written to the cache under the key computed
\* at arrival
CacheStore(r) ==
    /\ pc[r] = "write"
    /\ ~CacheReadLocked
    /\ response_cache' = CacheWrite(response_cache, cache_key[r], response[r])
    /\ pc' = [ pc EXCEPT ![r] = "cleanup" ]
    /\ UNCHANGED << head, headChanges, incoming_requests, method, params,
                    cache_key, response, other_incoming_rx, sent, closed,
                    result, calls, via, doneHead, dispatched >>
    /\ UNCHANGED << envVars, targets >>

\* line 767: the in-flight entry of the key is removed
Cleanup(r) ==
    /\ pc[r] = "cleanup"
    /\ incoming_requests' = InflightRemove(incoming_requests, cache_key[r])
    /\ pc' = [ pc EXCEPT ![r] = "signal" ]
    /\ UNCHANGED << head, headChanges, response_cache, method, params,
                    cache_key, response, other_incoming_rx, sent, closed,
                    result, calls, via, doneHead, dispatched >>
    /\ UNCHANGED << envVars, targets >>

\* lines 768-770: incoming_tx.send(false), then the response is returned
Signal(r) ==
    /\ pc[r] = "signal"
    /\ sent' = [ sent EXCEPT ![r] = HasReceivers(r) ]
    /\ closed' = [ closed EXCEPT ![r] = TRUE ]
    /\ Return(r, Ok(response[r]), "dispatch")
    /\ UNCHANGED << head, headChanges, response_cache, incoming_requests,
                    method, params, cache_key, response, other_incoming_rx,
                    calls, dispatched >>
    /\ UNCHANGED << envVars, targets >>

\* a deadline that expires only for a request waiting on another request
Deadline_OnlyWaiting(r) ==
    /\ mode = "single"
    /\ pc[r] = "waiting"
    /\ closed' = [ closed EXCEPT ![r] = TRUE ]
    /\ Return(r, Err("timeout"), "timeout")
    /\ UNCHANGED << head, headChanges, response_cache, incoming_requests,
                    method, params, cache_key, response, other_incoming_rx,
                    sent, calls, dispatched >>
    /\ UNCHANGED << envVars, targets >>

\* proxy_web3_rpc, lines 541-546: timeout(max_time, ...) expires while the
\* request is suspended at an await; the future is dropped where it stands
Deadline(r) ==
    /\ mode = "single"
    /\ pc[r] \in { "waiting", "inflight" }
    /\ closed' = [ closed EXCEPT ![r] = TRUE ]
    /\ Return(r, Err("timeout"), "timeout")
    /\ UNCHANGED << head, headChanges, response_cache, incoming_requests,
                    method, params, cache_key, response, other_incoming_rx,
                    sent, calls, dispatched >>
    /\ UNCHANGED << envVars, targets >>

(* ------------------------------- batches ------------------------------- *)

\* In a run with mode = "batch" the requests 1..NumReqs are the requests of
\* one batch, request i at index i.  join_all (lines 565-572) polls the
\* future of every request of the batch; the futures advance independently
\* between their awaits.

\* the responses in the order in which the Vec was built reversed
Collected_Reversed(res) ==
    IF \E i \in Reqs : ~ res[i].ok
    THEN LET first == CHOOSE i \in Reqs :
                          /\ ~ res[i].ok
                          /\ \A j \in Reqs : ~ res[j].ok => i <= j
         IN  [ ok |-> FALSE, err |-> res[first].err, resps |-> << >> ]
    ELSE [ ok |-> TRUE, err |-> "",
           resps |-> [ i \in Reqs |-> res[NumReqs + 1 - i].resp ] ]

\* a loop that keeps going after an error and returns the error seen last
Collected_LastError(res) ==
    IF \E i \in Reqs : ~ res[i].ok
    THEN LET last == CHOOSE i \in Reqs :
                         /\ ~ res[i].ok
                         /\ \A j \in Reqs : ~ res[j].ok => j <= i
         IN  [ ok |-> FALSE, err |-> res[last].err, resps |-> << >> ]
    ELSE [ ok |-> TRUE, err |-> "",
           resps |-> [ i \in Reqs |-> res[i].resp ] ]

\* lines 574-580: the results are pushed in the order of the requests; the
\* `?` returns the error of the first request, in that order, that failed
Collected(res) ==
    IF \E i \in Reqs : ~ res[i].ok
    THEN LET first == CHOOSE i \in Reqs :
                          /\ ~ res[i].ok
                          /\ \A j \in Reqs : ~ res[j].ok => i <= j
         IN  [ ok |-> FALSE, err |-> res[first].err, resps |-> << >> ]
    ELSE [ ok |-> TRUE, err |-> "",
           resps |-> [ i \in Reqs |-> res[i].resp ] ]

\* proxy_web3_rpc_requests, lines 559-583: every future of join_all has
\* completed, the batch returns
CollectBatch ==
    /\ mode = "batch"
    /\ batch_result = NoBatchResult
    /\ \A r \in Reqs : pc[r] = "done"
    /\ batch_result' = Collected(result)
    /\ UNCHANGED << inputs, sideVars, routerVars, poolVars, mode, subVars >>

\* the requests of the batch that have not completed
Unfinished == { r \in Reqs : pc[r] # "done" }

\* proxy_web3_rpc, lines 547-549: timeout(max_time, ...) around the whole
\* batch expires while join_all is suspended, every unfinished future at an
\* await; all of them are dropped where they stand
BatchDeadline ==
    /\ mode = "batch"
    /\ batch_result = NoBatchResult
    /\ Unfinished # { }
    /\ \A r \in Unfinished : pc[r] \in { "waiting", "inflight" }
    /\ closed' = [ r \in Reqs |-> closed[r] \/ r \in Unfinished ]
    /\ pc' = [ r \in Reqs |-> "done" ]
    /\ result' = [ r \in Reqs |->
                     IF r \in Unfinished THEN Err("timeout") ELSE result[r] ]
    /\ via' = [ r \in Reqs |->
                  IF r \in Unfinished THEN "timeout" ELSE via[r] ]
    /\ doneHead' = [ r \in Reqs |->
                       IF r \in Unfinished THEN head ELSE doneHead[r] ]
    /\ batch_result' = [ ok |-> FALSE, err |-> "timeout", resps |-> << >> ]
    /\ UNCHANGED << head, headChanges, response_cache, incoming_requests,
                    method, params, cache_key, response, other_incoming_rx,
                    sent, calls, dispatched, targets >>
    /\ UNCHANGED << inputs, sideVars, poolVars, mode, subVars >>

(* ---------------------------- subscriptions ---------------------------- *)

\* the params texts of eth_subscribe calls: the four kinds with an arm in the
\* match of lines 342-505, and one kind without
NewHeadsParams == "[\"newHeads\"]"
PendingParams ==
    { "[\"newPendingTransactions\"]", "[\"newPendingFullTransactions\"]",
      "[\"newPendingRawTransactions\"]" }
SubscribeParams == { NewHeadsParams, "[\"logs\"]" } \cup PendingParams

HexDigit(d) == SubSeq("0123456789abcdef", d + 1, d + 1)

RECURSIVE HexDigits(_)
HexDigits(n) ==
    IF n < 16 THEN HexDigit(n) ELSE HexDigits(n \div 16) \o HexDigit(n % 16)

\* line 337: format!("{:#x}", subscription_id)
ToHex(n) == "0x" \o HexDigits(n)

\* the subscription tasks that have been spawned
Spawned == { s \in Subs : sub_seen[s] # NotSpawned }

\* the subscription that the task in slot s serves: the s-th accepted call
RECURSIVE AcceptedCalls(_)
AcceptedCalls(calls_) ==
    IF calls_ = << >>
    THEN << >>
    ELSE IF Head(calls_).ok
         THEN << Head(calls_) >> \o AcceptedCalls(Tail(calls_))
         ELSE AcceptedCalls(Tail(calls_))

TaskSubscription(s) == AcceptedCalls(subscriptions)[s].id
TaskParams(s) == AcceptedCalls(subscriptions)[s].params

\* the counter is read and not advanced
eth_subscribe_LoadOnly(p) ==
    LET subscription_id == ToHex(next_subscription_id)
        s == Cardinality(Spawned) + 1
    IN  /\ << "eth_subscribe", p >> \in inputs
        /\ Len(subscriptions) < MaxSubscribeCalls
        /\ next_subscription_id' = next_subscription_id
        /\ IF p = NewHeadsParams \/ p \in PendingParams
           THEN /\ s \in Subs
                /\ sub_seen' = [ sub_seen EXCEPT ![s] =
                        IF p = NewHeadsParams THEN NotPolled ELSE Len(tx_log) ]
                /\ sub_start' = [ sub_start EXCEPT ![s] =
                        IF p = NewHeadsParams THEN head_block ELSE Len(tx_log) ]
                /\ sub_pc' = [ sub_pc EXCEPT ![s] = "next" ]
                /\ subscriptions' = Append(subscriptions,
                        [ id |-> subscription_id, params |-> p, ok |-> TRUE ])
           ELSE /\ subscriptions' = Append(subscriptions,
                        [ id |-> subscription_id, params |-> p, ok |-> FALSE ])
                /\ UNCHANGED << sub_seen, sub_start, sub_pc >>
        /\ UNCHANGED << head_block, head_version, tx_log, sub_msg, sub_sink,
                        sub_drained, sub_aborted >>
        /\ UNCHANGED << inputs, sideVars, routerVars, poolVars, mode, batch_result >>

\* eth_subscribe, lines 325-515.  fetch_add (lines 334-336) takes the id
\* before the match.  The newHeads arm (lines 343-376) clones the watch
\* receiver; a pending arm (lines 377-504) subscribes to the broadcast
\* channel, which shows it the states sent from now on; both spawn the task
\* of the subscription, in the next free task slot.  The catch-all arm
\* (line 505) returns Err("unimplemented")
eth_subscribe(p) ==
    LET subscription_id == ToHex(next_subscription_id)
        s == Cardinality(Spawned) + 1
    IN  /\ << "eth_subscribe", p >> \in inputs
        /\ Len(subscriptions) < MaxSubscribeCalls
        /\ next_subscription_id' = next_subscription_id + 1
        /\ IF p = NewHeadsParams \/ p \in PendingParams
           THEN /\ s \in Subs
                /\ sub_seen' = [ sub_seen EXCEPT ![s] =
                        IF p = NewHeadsParams THEN NotPolled ELSE Len(tx_log) ]
                /\ sub_start' = [ sub_start EXCEPT ![s] =
                        IF p = NewHeadsParams THEN head_block ELSE Len(tx_log) ]
                /\ sub_pc' = [ sub_pc EXCEPT ![s] = "next" ]
                /\ subscriptions' = Append(subscriptions,
                        [ id |-> subscription_id, params |-> p, ok |-> TRUE ])
           ELSE /\ subscriptions' = Append(subscriptions,
                        [ id |-> subscription_id, params |-> p, ok |-> FALSE ])
                /\ UNCHANGED << sub_seen, sub_start, sub_pc >>
        /\ UNCHANGED << head_block, head_version, tx_log, sub_msg, sub_sink,
                        sub_drained, sub_aborted >>
        /\ UNCHANGED << inputs, sideVars, routerVars, poolVars, mode, batch_result >>

\* the head-block tracker sends the next head, number head_block + 1, on the
\* watch channel created at line 256 with Block::default(), number 0
EmitHead ==
    /\ << "upstream", "head" >> \in inputs
    /\ head_block < MaxEmits
    /\ head_block' = head_block + 1
    /\ head_version' = head_version + 1
    /\ UNCHANGED << next_subscription_id, subscriptions, tx_log, sub_seen,
                    sub_start, sub_pc, sub_msg, sub_sink, sub_drained,
                    sub_aborted >>
    /\ UNCHANGED << inputs, sideVars, routerVars, poolVars, mode, batch_result >>

\* the states of a transaction (enum TxState, lines 73-80)
TxStates == { "Pending", "Confirmed", "Orphaned" }

\* an upstream connection sends the state of transaction number
\* Len(tx_log) + 1 on the broadcast channel created at line 258; send never
\* waits for a receiver
BroadcastTx(st) ==
    /\ << "upstream", st >> \in inputs
    /\ Len(tx_log) < MaxTxEvents
    /\ tx_log' = Append(tx_log, [ hash |-> Len(tx_log) + 1, state |-> st ])
    /\ UNCHANGED << next_subscription_id, subscriptions, head_block,
                    head_version, sub_seen, sub_start, sub_pc, sub_msg,
                    sub_sink, sub_drained, sub_aborted >>
    /\ UNCHANGED << inputs, sideVars, routerVars, poolVars, mode, batch_result >>

\* what the task changes besides its own fields
TaskFrame ==
    /\ UNCHANGED << next_subscription_id, subscriptions, head_block,
                    head_version, tx_log, sub_start, sub_aborted >>
    /\ UNCHANGED << inputs, sideVars, routerVars, poolVars, mode, batch_result >>

\* the notifications in the sink that the client has not taken
InSink(s) == Len(sub_sink[s]) - sub_drained[s]

\* lines 367-370, the first poll of send_async(msg): Err when the receiver of
\* the sink is gone, and the task breaks out of its loop; Ok when the sink
\* has room; otherwise the task is suspended in send_async, holding msg
Offer(s, msg) ==
    IF sub_drained[s] = Dropped
    THEN /\ sub_pc' = [ sub_pc EXCEPT ![s] = "ended" ]
         /\ UNCHANGED << sub_msg, sub_sink >>
    ELSE IF InSink(s) < SinkCap
         THEN /\ sub_sink' = [ sub_sink EXCEPT ![s] = Append(@, msg) ]
              /\ UNCHANGED << sub_msg, sub_pc >>
         ELSE /\ sub_msg' = [ sub_msg EXCEPT ![s] = << msg >> ]
              /\ sub_pc' = [ sub_pc EXCEPT ![s] = "send" ]
              /\ UNCHANGED sub_sink

\* a newHeads stream that yields the value of the channel without marking
\* its version as seen
TakeHead_NotMarked(s) ==
    /\ s \in Spawned
    /\ TaskParams(s) = NewHeadsParams
    /\ sub_pc[s] = "next"
    /\ sub_aborted[s] = NotAborted
    /\ sub_seen[s] = NotPolled \/ sub_seen[s] # head_version
    /\ sub_seen' = [ sub_seen EXCEPT ![s] =
            IF @ = NotPolled THEN 0 ELSE head_version ]
    /\ Offer(s, [ subscription |-> TaskSubscription(s),
                  result |-> head_block ])
    /\ UNCHANGED sub_drained
    /\ TaskFrame

\* lines 350-370, newHeads, one turn of the loop: next() of the Abortable
\* WatchStream, then send_async.  WatchStream::new yields the value of the
\* channel at the first poll and then the value after each change it has
\* not seen; the task builds the eth_subscription notification of the head
\* and offers it to the sink
TakeHead(s) ==
    /\ s \in Spawned
    /\ TaskParams(s) = NewHeadsParams
    /\ sub_pc[s] = "next"
    /\ sub_aborted[s] = NotAborted
    /\ sub_seen[s] = NotPolled \/ sub_seen[s] # head_version
    /\ sub_seen' = [ sub_seen EXCEPT ![s] = head_version ]
    /\ Offer(s, [ subscription |-> TaskSubscription(s),
                  result |-> head_block ])
    /\ UNCHANGED sub_drained
    /\ TaskFrame

\* the receiver of the task has fallen more than the capacity of the
\* broadcast channel behind the sender
Lagged(s) == Len(tx_log) - sub_seen[s] > PENDING_TX_CAP

\* the result of the notification: the hash (line 401), the transaction
\* (line 444) or its rlp encoding (line 488)
TxResult(p, tx) ==
    IF p = "[\"newPendingTransactions\"]" THEN << "hash", tx.hash >>
    ELSE IF p = "[\"newPendingFullTransactions\"]" THEN << "tx", tx.hash >>
    ELSE << "rlp", tx.hash >>

\* a pending task that notifies every state it receives
TakeTx_NoFilter(s) ==
    /\ s \in Spawned
    /\ TaskParams(s) \in PendingParams
    /\ sub_pc[s] = "next"
    /\ sub_aborted[s] = NotAborted
    /\ sub_seen[s] < Len(tx_log)
    /\ ~ Lagged(s)
    /\ sub_seen' = [ sub_seen EXCEPT ![s] = @ + 1 ]
    /\ Offer(s, [ subscription |-> TaskSubscription(s),
                  result |-> TxResult(TaskParams(s),
                                      tx_log[sub_seen[s] + 1]) ])
    /\ UNCHANGED sub_drained
    /\ TaskFrame

\* lines 388-412, 431-456 and 475-500, pending transactions, one turn of
\* the loop: next() of the Abortable BroadcastStream yields the next state
\* the receiver has not seen; a Confirmed state is skipped (continue), for a
\* Pending or Orphaned state the task builds the notification and offers it
\* to the sink
TakeTx(s) ==
    /\ s \in Spawned
    /\ TaskParams(s) \in PendingParams
    /\ sub_pc[s] = "next"
    /\ sub_aborted[s] = NotAborted
    /\ sub_seen[s] < Len(tx_log)
    /\ ~ Lagged(s)
    /\ sub_seen' = [ sub_seen EXCEPT ![s] = @ + 1 ]
    /\ LET new_tx_state == tx_log[sub_seen[s] + 1]
       IN  IF new_tx_state.state = "Confirmed"
           THEN UNCHANGED << sub_msg, sub_pc, sub_sink >>
           ELSE Offer(s, [ subscription |-> TaskSubscription(s),
                           result |-> TxResult(TaskParams(s),
                                               new_tx_state) ])
    /\ UNCHANGED sub_drained
    /\ TaskFrame

\* lines 388, 431, 475: the stream yields Some(Err(Lagged)), the pattern
\* Some(Ok(_)) of the while let does not match and the task ends
TaskLagged(s) ==
    /\ s \in Spawned
    /\ TaskParams(s) \in PendingParams
    /\ sub_pc[s] = "next"
    /\ sub_aborted[s] = NotAborted
    /\ Lagged(s)
    /\ sub_pc' = [ sub_pc EXCEPT ![s] = "ended" ]
    /\ UNCHANGED << sub_seen, sub_msg, sub_sink, sub_drained >>
    /\ TaskFrame

\* Abortable (lines 350-353, 380-383): after abort() the stream yields None
\* at its next poll and the task ends
TaskAborted(s) ==
    /\ s \in Spawned
    /\ sub_pc[s] = "next"
    /\ sub_aborted[s] # NotAborted
    /\ sub_pc' = [ sub_pc EXCEPT ![s] = "ended" ]
    /\ UNCHANGED << sub_seen, sub_msg, sub_sink, sub_drained >>
    /\ TaskFrame

\* lines 367-370: the suspended send_async(msg) returns Ok once the sink of
\* the client has room; the abort handle has no effect on it
SendNotification(s) ==
    /\ sub_pc[s] = "send"
    /\ sub_drained[s] # Dropped
    /\ InSink(s) < SinkCap
    /\ sub_sink' = [ sub_sink EXCEPT ![s] = Append(@, sub_msg[s][1]) ]
    /\ sub_msg' = [ sub_msg EXCEPT ![s] = NoMsg ]
    /\ sub_pc' = [ sub_pc EXCEPT ![s] = "next" ]
    /\ UNCHANGED << sub_seen, sub_drained >>
    /\ TaskFrame

\* lines 367-370: the receiver of the sink is gone, the suspended send_async
\* returns Err and the task breaks out of its loop
SendFails(s) ==
    /\ sub_pc[s] = "send"
    /\ sub_drained[s] = Dropped
    /\ sub_msg' = [ sub_msg EXCEPT ![s] = NoMsg ]
    /\ sub_pc' = [ sub_pc EXCEPT ![s] = "ended" ]
    /\ UNCHANGED << sub_seen, sub_sink, sub_drained >>
    /\ TaskFrame

\* what the client and the frontend change besides their own fields
ClientFrame ==
    /\ UNCHANGED << next_subscription_id, subscriptions, head_block,
                    head_version, tx_log, sub_seen, sub_start, sub_pc,
                    sub_msg, sub_sink >>
    /\ UNCHANGED << inputs, sideVars, routerVars, poolVars, mode, batch_result >>

\* the client takes the oldest notification out of its sink
Drain(s) ==
    /\ s \in Spawned
    /\ sub_drained[s] # Dropped
    /\ InSink(s) > 0
    /\ sub_drained' = [ sub_drained EXCEPT ![s] = @ + 1 ]
    /\ UNCHANGED sub_aborted
    /\ ClientFrame

\* the connection of the client closes and the receiver of its sink is
\* dropped
ClientGone(s) ==
    /\ s \in Spawned
    /\ sub_drained[s] # Dropped
    /\ sub_drained' = [ sub_drained EXCEPT ![s] = Dropped ]
    /\ UNCHANGED sub_aborted
    /\ ClientFrame

\* the number of upstream events so far on the stream that the task reads
Events(s) == IF TaskParams(s) = NewHeadsParams THEN head_block ELSE Len(tx_log)

\* the frontend fires the AbortHandle that eth_subscribe returned (line 514)
Cancel(s) ==
    /\ s \in Spawned
    /\ sub_aborted[s] = NotAborted
    /\ sub_aborted' = [ sub_aborted EXCEPT ![s] = Events(s) ]
    /\ UNCHANGED sub_drained
    /\ ClientFrame

(* -------------------------- upstream selection -------------------------- *)

\* the upstreams of the balanced pool, by id
Rpcs == 1..NumRpcs

\* best() found no upstream
NO_SERVERS == 0

\* the Healthy upstreams whose head is at most d blocks behind the canonical
\* head
Candidates(ups, d) ==
    { u \in Rpcs : ups[u].healthy /\ ups[u].behind <= d }

\* an order that breaks ties of load by id alone
Before_NoSoftLimit(ups, u, v) ==
    LET lu == ups[u].inflight_count * ups[v].soft_limit
        lv == ups[v].inflight_count * ups[u].soft_limit
    IN  \/ lu < lv
        \/ lu = lv /\ u < v

\* the order of best(): u comes before v when its inflight_count /
\* soft_limit is lower; ties are broken by soft_limit descending, then by id
Before(ups, u, v) ==
    LET lu == ups[u].inflight_count * ups[v].soft_limit
        lv == ups[v].inflight_count * ups[u].soft_limit
    IN  \/ lu < lv
        \/ /\ lu = lv
           /\ \/ ups[u].soft_limit > ups[v].soft_limit
              \/ ups[u].soft_limit = ups[v].soft_limit /\ u < v

\* the first of the upstreams of S in this order
First(ups, S) == CHOOSE u \in S : \A v \in S \ { u } : Before(ups, u, v)

\* best(): among the Healthy upstreams at the canonical head, else among
\* those within one block of it, else NO_SERVERS
best(ups) ==
    IF Candidates(ups, 0) # { } THEN First(ups, Candidates(ups, 0))
    ELSE IF Candidates(ups, 1) # { } THEN First(ups, Candidates(ups, 1))
    ELSE NO_SERVERS

\* what a step of the balanced pool leaves alone
BalanceFrame ==
    UNCHANGED << inputs, creditVars, flattenVars, mainVars, limitVars,
                 routerVars, poolVars, mode, batch_result, subVars >>

\* the router asks the pool for the best upstream
CallBest ==
    /\ best_rpc = NoBest
    /\ best_rpc' = [ rpc |-> best(upstreams), seen |-> upstreams ]
    /\ UNCHANGED upstreams
    /\ BalanceFrame

\* send(req) on the upstream that best() returned: inflight_count goes up
\* unless the upstream is at its limit (CAPACITY) or there is none
Send ==
    /\ best_rpc # NoBest
    /\ LET u == best_rpc.rpc
       IN  IF u # NO_SERVERS /\ upstreams[u].inflight_count < MaxInflight
           THEN upstreams' = [ upstreams EXCEPT
                                 ![u].inflight_count = @ + 1 ]
           ELSE UNCHANGED upstreams
    /\ best_rpc' = NoBest
    /\ BalanceFrame

\* the reply of upstream u to one of its requests arrives: inflight_count
\* goes down
Reply(u) ==
    /\ upstreams[u].inflight_count > 0
    /\ upstreams' = [ upstreams EXCEPT ![u].inflight_count = @ - 1 ]
    /\ UNCHANGED best_rpc
    /\ BalanceFrame

(* --------------------------- frontend limits --------------------------- *)

\* what a step of the rate limit functions leaves alone
LimitFrame ==
    UNCHANGED << inputs, creditVars, flattenVars, balanceVars, mainVars,
                 routerVars, poolVars, mode, batch_result, subVars,
                 configured >>

\* the clock advances
Tick ==
    /\ now < MaxTime
    /\ now' = now + 1
    /\ UNCHANGED << user_keys, user_cache, limit_calls >>
    /\ LimitFrame

\* the row of key k changes in the database: the key is activated or
\* deactivated, or gets another limit; a row changes once in a run
DbChange(k, active, rpm) ==
    /\ user_keys[k].changed_at < 0
    /\ << active, rpm >>
          # << user_keys[k].active, user_keys[k].requests_per_minute >>
    /\ user_keys' = [ user_keys EXCEPT ![k] =
            [ active |-> active, requests_per_minute |-> rpm,
              changed_at |-> now ] ]
    /\ UNCHANGED << now, user_cache, limit_calls >>
    /\ LimitFrame

\* what DeferredRateLimiter::throttle can return
ThrottleOutcomes == { "Allowed", "RetryAt", "RetryNever", "Err" }

\* rate_limit_by_ip, the match of lines 59-78
IpResult(ip, o) ==
    CASE o = "Allowed" -> << "AllowedIp", ip >>
      [] o = "RetryAt" -> << "RateLimitedIp", ip, "Some" >>
      [] o = "RetryNever" -> << "RateLimitedIp", ip, "None" >>
      [] o = "Err" -> << "AllowedIp", ip >>

\* the panic of todo!() (lines 82 and 213), which unwinds through the
\* frontend function
Todo == << "panic", "todo" >>

\* the frontend function rate_limit_by_ip, lines 23-36: the match on what
\* the method of the app returned
FrontendIp(res) ==
    CASE res = Todo -> Todo
      [] res[1] = "Err" -> res
      [] res[1] = "AllowedIp" -> << "Ok", res[2] >>
      [] res[1] = "RateLimitedIp" -> << "Err", "RateLimitedIp" >>
      [] OTHER -> << "panic", "unimplemented" >>

\* the frontend function rate_limit_by_key, lines 38-51
FrontendKey(res) ==
    CASE res = Todo -> Todo
      [] res[1] = "Err" -> res
      [] res[1] = "AllowedUser" -> << "Ok", res[2] >>
      [] res[1] = "RateLimitedUser" -> << "Err", "RateLimitedUser" >>
      [] res[1] = "UnknownKey" -> << "Err", "UnknownKey" >>
      [] OTHER -> << "panic", "unimplemented" >>

\* rate_limit_by_ip, lines 54-84: with a rate limiter one call of throttle
\* and the match, without one todo!(); then the match of the frontend
\* function
rate_limit_by_ip(c, ip, o) ==
    /\ limit_calls[c].pc = "idle"
    /\ configured.frontend_ip_rate_limiter \/ o = "Allowed"
    /\ LET res == IF configured.frontend_ip_rate_limiter
                  THEN IpResult(ip, o) ELSE Todo
       IN  limit_calls' = [ limit_calls EXCEPT ![c] =
               [ @ EXCEPT !.pc = "done", !.kind = "ip", !.arg = ip,
                          !.at = now,
                          !.throttle = IF configured.frontend_ip_rate_limiter
                                       THEN o ELSE "none",
                          !.result = res, !.returned = FrontendIp(res) ] ]
    /\ UNCHANGED << now, user_keys, user_cache >>
    /\ LimitFrame

\* lines 142-150: a cached record is used unless expires_at < Instant::now()
Fresh(cached_user, t) ==
    cached_user # NoUser /\ ~ ( cached_user.expires_at < t )

\* rate_limit_by_key, lines 140-154: the check of the local cache
KeyCall(c, k) ==
    /\ limit_calls[c].pc = "idle"
    /\ LET cached_user == user_cache[k]
       IN  limit_calls' = [ limit_calls EXCEPT ![c] =
               [ @ EXCEPT !.kind = "key", !.arg = k, !.at = now,
                          !.saw = cached_user,
                          !.pc = IF Fresh(cached_user, now)
                                 THEN "throttle" ELSE "query",
                          !.user_data = IF Fresh(cached_user, now)
                                        THEN cached_user ELSE NoUser ] ]
    /\ UNCHANGED << now, user_keys, user_cache >>
    /\ LimitFrame

\* cache_user_data, lines 97-107: the database runs the query for the active
\* row of the key and of its columns user_id and requests_per_minute
KeyQuery(c) ==
    /\ limit_calls[c].pc = "query"
    /\ configured.db_conn
    /\ LET row == user_keys[limit_calls[c].arg]
       IN  limit_calls' = [ limit_calls EXCEPT ![c] =
               [ @ EXCEPT !.pc = "stamp", !.queried = TRUE,
                          !.fetched = IF row.active
                                      THEN << limit_calls[c].arg,
                                              row.requests_per_minute >>
                                      ELSE << >> ] ]
    /\ UNCHANGED << now, user_keys, user_cache >>
    /\ LimitFrame

\* lines 87 and 106-107, 158-161: there is no database or the query fails,
\* and the ? returns the error
KeyQueryFails(c) ==
    /\ limit_calls[c].pc = "query"
    /\ limit_calls' = [ limit_calls EXCEPT ![c] =
            [ @ EXCEPT !.pc = "done", !.queried = configured.db_conn,
                       !.result = << "Err",
                                     "fetching user data for rate limits" >>,
                       !.returned = FrontendKey(<< "Err",
                           "fetching user data for rate limits" >>) ] ]
    /\ UNCHANGED << now, user_keys, user_cache >>
    /\ LimitFrame

\* lines 108-131: the record built from the answer of the database, stamped
\* with the time at which the answer is handled
UserCacheValue(fetched, t) ==
    IF fetched = << >>
    THEN [ expires_at |-> t + USER_CACHE_TTL, user_id |-> 0,
           user_count_per_period |-> 0 ]
    ELSE [ expires_at |-> t + USER_CACHE_TTL, user_id |-> fetched[1],
           user_count_per_period |->
               IF fetched[2] = U64_MAX THEN NoLimit ELSE fetched[2] ]

\* cache_user_data, lines 108-137: the answer of the database arrives, the
\* record is built and saved in user_cache
KeyStamp(c) ==
    /\ limit_calls[c].pc = "stamp"
    /\ LET user_data == UserCacheValue(limit_calls[c].fetched, now)
       IN  /\ user_cache' = [ user_cache EXCEPT
                                ![limit_calls[c].arg] = user_data ]
           /\ limit_calls' = [ limit_calls EXCEPT ![c] =
                   [ @ EXCEPT !.pc = "throttle", !.user_data = user_data ] ]
    /\ UNCHANGED << now, user_keys >>
    /\ LimitFrame

\* the rate limiter is asked about this user: the key is known and has a
\* limit (lines 164, 173-177)
Throttled(user_data) ==
    user_data.user_id # 0 /\ user_data.user_count_per_period # NoLimit

\* a match that takes an error of the rate limiter for a limit that is hit
KeyResult_ErrLimits(user_data, o) ==
    IF user_data.user_id = 0 THEN << "UnknownKey" >>
    ELSE IF user_data.user_count_per_period = NoLimit
         THEN << "AllowedUser", user_data.user_id >>
         ELSE CASE o = "Allowed" -> << "AllowedUser", user_data.user_id >>
                [] o = "RetryAt" ->
                     << "RateLimitedUser", user_data.user_id, "Some" >>
                [] o = "RetryNever" ->
                     << "RateLimitedUser", user_data.user_id, "None" >>
                [] o = "Err" ->
                     << "RateLimitedUser", user_data.user_id, "None" >>

\* rate_limit_by_key, lines 164-210
KeyResult(user_data, o) ==
    IF user_data.user_id = 0 THEN << "UnknownKey" >>
    ELSE IF user_data.user_count_per_period = NoLimit
         THEN << "AllowedUser", user_data.user_id >>
         ELSE CASE o = "Allowed" -> << "AllowedUser", user_data.user_id >>
                [] o = "RetryAt" ->
                     << "RateLimitedUser", user_data.user_id, "Some" >>
                [] o = "RetryNever" ->
                     << "RateLimitedUser", user_data.user_id, "None" >>
                [] o = "Err" -> << "AllowedUser", user_data.user_id >>

\* the rate limiter is Some and is asked about this user
Consulted(user_data) ==
    configured.frontend_key_rate_limiter /\ Throttled(user_data)

\* rate_limit_by_key, lines 164-214: the answer for an unknown key; with a
\* rate limiter the answer for a key without limit, else one call of
\* throttle and the match; without a rate limiter todo!(); then the match of
\* the frontend function
KeyFinish(c, o) ==
    /\ limit_calls[c].pc = "throttle"
    /\ Consulted(limit_calls[c].user_data) \/ o = "Allowed"
    /\ LET user_data == limit_calls[c].user_data
           res == IF user_data.user_id # 0
                     /\ ~ configured.frontend_key_rate_limiter
                  THEN Todo
                  ELSE KeyResult(user_data, o)
       IN  limit_calls' = [ limit_calls EXCEPT ![c] =
               [ @ EXCEPT !.pc = "done",
                          !.throttle = IF Consulted(user_data)
                                       THEN o ELSE "none",
                          !.result = res, !.returned = FrontendKey(res) ] ]
    /\ UNCHANGED << now, user_keys, user_cache >>
    /\ LimitFrame

(* --------------------- upstream health and reloads --------------------- *)

\* the health checker takes a private upstream out of the Healthy set
Degrade(u) ==
    /\ u \in healthy
    /\ healthy' = healthy \ { u }
    /\ UNCHANGED << balanced_rpcs, private_rpcs, config_task, new_config,
                    reloads, reload_result, applied, process >>
    /\ UNCHANGED << inputs, sideVars, routerVars, mode, batch_result, subVars >>

\* a later health check of the upstream succeeds
Recover(u) ==
    /\ u \in PrivateRpcs \ healthy
    /\ healthy' = healthy \cup { u }
    /\ UNCHANGED << balanced_rpcs, private_rpcs, config_task, new_config,
                    reloads, reload_result, applied, process >>
    /\ UNCHANGED << inputs, sideVars, routerVars, mode, batch_result, subVars >>

\* the config task receives configuration number reloads + 1 from the file
\* watcher (line 200)
ConfigReceived ==
    /\ process = "running"
    /\ config_task = "waiting"
    /\ reloads < MaxReloads
    /\ reloads' = reloads + 1

\* update_config, lines 127-129, and the `?` of line 201: the chain id
\* differs, update_config returns Err and the config task returns it
RejectChainId(c) ==
    /\ ConfigReceived
    /\ c # ChainId
    /\ reload_result' = "rejected"
    /\ config_task' = "ended"
    /\ UNCHANGED << healthy, balanced_rpcs, private_rpcs, new_config, applied,
                    process >>
    /\ UNCHANGED << inputs, sideVars, routerVars, mode, batch_result, subVars >>

\* update_config, lines 135-169: the new balanced and private sets are built
BuildPools(c) ==
    /\ ConfigReceived
    /\ c = ChainId
    /\ new_config' = reloads + 1
    /\ reload_result' = "none"
    /\ config_task' = "built"
    /\ UNCHANGED << healthy, balanced_rpcs, private_rpcs, applied, process >>
    /\ UNCHANGED << inputs, sideVars, routerVars, mode, batch_result, subVars >>

\* lines 144 and 166: Web3Connections::spawn fails, `?` returns the error
BuildPoolsFails(c) ==
    /\ ConfigReceived
    /\ c = ChainId
    /\ reload_result' = "failed"
    /\ config_task' = "ended"
    /\ UNCHANGED << healthy, balanced_rpcs, private_rpcs, new_config, applied,
                    process >>
    /\ UNCHANGED << inputs, sideVars, routerVars, mode, batch_result, subVars >>

\* line 172: self.balanced_rpcs.swap_rpcs(balanced_rpcs).await
SwapBalanced ==
    /\ config_task = "built"
    /\ balanced_rpcs' = new_config
    /\ config_task' = "swapped_balanced"
    /\ UNCHANGED << healthy, private_rpcs, new_config, reloads, reload_result,
                    applied, process >>
    /\ UNCHANGED << inputs, sideVars, routerVars, mode, batch_result, subVars >>

\* line 172: the first swap_rpcs returns Err
SwapBalancedFails ==
    /\ config_task = "built"
    /\ reload_result' = "failed"
    /\ config_task' = "ended"
    /\ UNCHANGED << healthy, balanced_rpcs, private_rpcs, new_config, reloads,
                    applied, process >>
    /\ UNCHANGED << inputs, sideVars, routerVars, mode, batch_result, subVars >>

\* line 173: self.private_rpcs.swap_rpcs(private_rpcs).await, then Ok(handles)
\* and the next turn of the loop of line 200
SwapPrivate ==
    /\ config_task = "swapped_balanced"
    /\ private_rpcs' = new_config
    /\ applied' = new_config
    /\ reload_result' = "applied"
    /\ config_task' = "waiting"
    /\ UNCHANGED << healthy, balanced_rpcs, new_config, reloads, process >>
    /\ UNCHANGED << inputs, sideVars, routerVars, mode, batch_result, subVars >>

\* line 173: the second swap_rpcs returns Err
SwapPrivateFails ==
    /\ config_task = "swapped_balanced"
    /\ reload_result' = "failed"
    /\ config_task' = "ended"
    /\ UNCHANGED << healthy, balanced_rpcs, private_rpcs, new_config, reloads,
                    applied, process >>
    /\ UNCHANGED << inputs, sideVars, routerVars, mode, batch_result, subVars >>

\* how a task can end: it returns Ok, it returns Err, or it panics and its
\* JoinHandle yields a JoinError
Endings == { "ok", "err", "panic" }

\* the task of a pool ends
TaskEnds(t, e) ==
    /\ process = "running"
    /\ pool_handles[t] = "running"
    /\ pool_handles' = [ pool_handles EXCEPT ![t] = e ]
    /\ UNCHANGED << frontend_handle, exit_code >>
    /\ UNCHANGED << inputs, creditVars, flattenVars, balanceVars, limitVars,
                    routerVars, poolVars, mode, batch_result, subVars >>

\* the task of frontend::run ends
FrontendEnds(e) ==
    /\ process = "running"
    /\ frontend_handle = "running"
    /\ frontend_handle' = e
    /\ UNCHANGED << pool_handles, exit_code >>
    /\ UNCHANGED << inputs, creditVars, flattenVars, balanceVars, limitVars,
                    routerVars, poolVars, mode, batch_result, subVars >>

\* how the config task stands as a handle: it ends only through the ? of
\* line 201, with the error of update_config
ConfigHandle == IF config_task = "ended" THEN "err" ELSE "running"

\* flatten_handles (lines 59-71) over the handles of the two pools and of
\* the config task (line 211): Err as soon as a task has ended with an error
\* or a panic, Ok once all have ended Ok
FlattenHandles ==
    LET ended == { pool_handles[t] : t \in PoolTasks } \cup { ConfigHandle }
    IN  IF "err" \in ended \/ "panic" \in ended THEN "err"
        ELSE IF ended = { "ok" } THEN "ok"
        ELSE "running"

\* flatten_handle (lines 51-57) over the handle of the frontend
FlattenHandle ==
    IF frontend_handle \in { "err", "panic" } THEN "err" ELSE frontend_handle

\* main.rs lines 133-145: one of the two futures of select! is ready, its
\* value x is logged with info!, the root task returns Ok(()) and so does
\* main: the process exits with code 0
MainReturns ==
    /\ process = "running"
    /\ FlattenHandles # "running" \/ FlattenHandle # "running"
    /\ process' = "exited"
    /\ exit_code' = 0
    /\ UNCHANGED << healthy, balanced_rpcs, private_rpcs, config_task,
                    new_config, reloads, reload_result, applied >>
    /\ UNCHANGED << pool_handles, frontend_handle >>
    /\ UNCHANGED << inputs, creditVars, flattenVars, balanceVars, limitVars,
                    routerVars, mode, batch_result, subVars >>

(* --------------------------- flatten_handles --------------------------- *)

\* how many handles a call of flatten_handles is given at most
NumHandles == 3
Handles == 1..NumHandles

\* what the steps of flatten_handles and of its tasks leave alone
FlattenFrame ==
    UNCHANGED << inputs, creditVars, balanceVars, mainVars, limitVars,
                 routerVars, poolVars, mode, batch_result, subVars >>

\* the task behind handle h ends: it returns Ok, returns Err, or panics
HandleEnds(h, e) ==
    /\ h \in DOMAIN handles
    /\ handles[h] = "running"
    /\ handles' = [ handles EXCEPT ![h] = e ]
    /\ UNCHANGED flatten
    /\ FlattenFrame

\* the handles whose task has ended and that next() has not yielded yet
Ready == { h \in DOMAIN handles \ flatten.taken : handles[h] # "running" }

\* a loop that notes an error and returns it once every handle has ended
FlattenYields_WaitsForAll(h) ==
    /\ flatten.result \in { "pending", "failing" }
    /\ h \in Ready
    /\ flatten' =
          [ taken |-> flatten.taken \cup { h },
            result |->
              LET failed == flatten.result = "failing" \/ handles[h] # "ok"
              IN  IF flatten.taken \cup { h } = DOMAIN handles
                  THEN IF failed THEN "err" ELSE "pending"
                  ELSE IF failed THEN "failing" ELSE "pending" ]
    /\ UNCHANGED handles
    /\ FlattenFrame

\* lines 62-68: handles.next().await yields a handle whose task has ended, in
\* the order in which they end; Err (a JoinError, the task panicked) and
\* Ok(Err) return the error, Ok(Ok) goes round the loop
FlattenYields(h) ==
    /\ flatten.result = "pending"
    /\ h \in Ready
    /\ flatten' = [ taken |-> flatten.taken \cup { h },
                    result |-> IF handles[h] = "ok" THEN "pending" ELSE "err" ]
    /\ UNCHANGED handles
    /\ FlattenFrame

\* lines 62 and 70: next() yields None once the set is empty, Ok(())
FlattenDone ==
    /\ flatten.result = "pending"
    /\ flatten.taken = DOMAIN handles
    /\ flatten' = [ flatten EXCEPT !.result = "ok" ]
    /\ UNCHANGED handles
    /\ FlattenFrame

\* one poll of the future of flatten_handles
FlattenStep == (\E h \in Handles : FlattenYields(h)) \/ FlattenDone

\* flatten_handles is called with any set of handles of running tasks
InitFlatten ==
    /\ head = 1
    /\ InitFields
    /\ InitLimits
    /\ InitCreditIdle
    /\ pool_handles = [ t \in PoolTasks |-> "running" ]
    /\ frontend_handle = "running"
    /\ exit_code = NotExited
    /\ upstreams = [ u \in 1..NumRpcs |->
                       [ soft_limit |-> 1, inflight_count |-> 0,
                         healthy |-> TRUE, behind |-> 0 ] ]
    /\ best_rpc = NoBest
    /\ \E S \in SUBSET Handles : handles = [ h \in S |-> "running" ]
    /\ flatten = [ taken |-> { }, result |-> "pending" ]
    /\ inputs = { }
    /\ mode = "single"

FlattenNext ==
    \/ \E h \in Handles, e \in Endings : HandleEnds(h, e)
    \/ \E h \in Handles : FlattenYields(h)
    \/ FlattenDone

FlattenSpec == InitFlatten /\ [][FlattenNext]_vars

\* the runtime polls flatten_handles again whenever a task of its set has
\* ended (the JoinHandle wakes it); no task is bound to end
FlattenFairSpec == FlattenSpec /\ WF_vars(FlattenStep)

(* ------------------------------- balance ------------------------------- *)

\* the users of the table user; user_id 0 is nobody
Users == 1..2
\* how many rows a receipt table, rpc_key and rpc_accounting_v2 hold at most
MaxReceipts == 2
MaxKeys == 2
MaxAccounting == 2
\* the amounts of a receipt, and how many requests one accounting row counts
Amounts == { 1, 2 }
MaxUsed == 2

\* what the changes of the tables leave alone
CreditFrame ==
    UNCHANGED << inputs, balanceVars, mainVars, limitVars, flattenVars,
                 routerVars, poolVars, mode, batch_result, subVars >>

RECURSIVE SumOver(_, _)
\* SUM(column) over a set of joined rows; column maps a row to its value,
\* 0 where the column is NULL (SUM skips NULL, COALESCE(.., 0) for no row)
SumOver(rows, column) ==
    IF rows = { }
    THEN 0
    ELSE LET row == CHOOSE x \in rows : TRUE
         IN  column[row] + SumOver(rows \ { row }, column)

\* LEFT JOIN: the rows of a table that match, or the one row of NULLs,
\* written 0
LeftJoin(matching) == IF matching = { } THEN { 0 } ELSE matching

\* lines 35-54: the rows of user uid joined with its rows of the two receipt
\* tables, with its rpc keys and, per rpc key, with the rows of
\* rpc_accounting_v2 of that key: << admin, chain, key, accounting >>, each a
\* row index or 0.  The tables stripe_increase_balance_receipt, referee and
\* referrer hold no row of these users, and user_tier one per user: each
\* joins one row to every row and adds nothing to the sums
JoinedRows(uid) ==
    { row \in
        LeftJoin({ a \in DOMAIN admin_receipt :
                      admin_receipt[a].deposit_to_user_id = uid })
        \X LeftJoin({ c \in DOMAIN chain_receipt :
                        chain_receipt[c].deposit_to_user_id = uid })
        \X LeftJoin({ k \in DOMAIN rpc_key : rpc_key[k].user_id = uid })
        \X ( { 0 } \cup DOMAIN accounting ) :
        row[4] \in LeftJoin({ q \in DOMAIN accounting :
                                accounting[q].rpc_key_id = row[3] }) }

\* lines 22-74: the row that the query returns for user_id, None for user 0
try_from_db(user_id) ==
    IF user_id = 0
    THEN << >>
    ELSE LET rows == JoinedRows(user_id)
         IN  [ user_id |-> user_id,
               total_deposits |->
                   SumOver(rows, [ r \in rows |->
                       IF r[1] = 0 THEN 0 ELSE admin_receipt[r[1]].amount ])
                 + SumOver(rows, [ r \in rows |->
                       IF r[2] = 0 THEN 0 ELSE chain_receipt[r[2]].amount ]),
               total_spent_paid_credits |->
                   SumOver(rows, [ r \in rows |->
                       IF r[4] = 0 THEN 0
                       ELSE accounting[r[4]].sum_credits_used ]),
               total_spent |->
                   SumOver(rows, [ r \in rows |->
                       IF r[4] = 0 THEN 0
                       ELSE accounting[r[4]].sum_incl_free_credits_used ]) ]

\* a remaining() that subtracts everything the user spent
remaining_OfTotalSpent(balance) ==
    balance.total_deposits - balance.total_spent

\* Balance::remaining, lines 17-20
remaining(balance) ==
    balance.total_deposits - balance.total_spent_paid_credits

\* a receipt of either table is written for a user
Deposit(admin, uid, amount) ==
    /\ IF admin
       THEN /\ Len(admin_receipt) < MaxReceipts
            /\ admin_receipt' = Append(admin_receipt,
                   [ deposit_to_user_id |-> uid, amount |-> amount ])
            /\ UNCHANGED chain_receipt
       ELSE /\ Len(chain_receipt) < MaxReceipts
            /\ chain_receipt' = Append(chain_receipt,
                   [ deposit_to_user_id |-> uid, amount |-> amount ])
            /\ UNCHANGED admin_receipt
    /\ UNCHANGED << rpc_key, accounting >>
    /\ CreditFrame

\* a user gets one more rpc key
NewKey(uid) ==
    /\ Len(rpc_key) < MaxKeys
    /\ rpc_key' = Append(rpc_key, [ user_id |-> uid ])
    /\ UNCHANGED << admin_receipt, chain_receipt, accounting >>
    /\ CreditFrame

\* one request of cost 1 on rpc key k is accounted: into the row of the key
\* for the running period, or into a new row when a new period has begun.
\* The request adds to sum_incl_free_credits_used, and to sum_credits_used
\* only when its user has paid balance left
Accounted(k, new_period) ==
    /\ k \in DOMAIN rpc_key
    /\ LET paid == IF remaining(try_from_db(rpc_key[k].user_id)) > 0
                   THEN 1 ELSE 0
           mine == { q \in DOMAIN accounting : accounting[q].rpc_key_id = k }
       IN  IF new_period \/ mine = { }
           THEN /\ Len(accounting) < MaxAccounting
                /\ accounting' = Append(accounting,
                       [ rpc_key_id |-> k, sum_credits_used |-> paid,
                         sum_incl_free_credits_used |-> 1 ])
           ELSE LET q == CHOOSE x \in mine : \A y \in mine : y <= x
                IN  /\ accounting[q].sum_incl_free_credits_used < MaxUsed
                    /\ accounting' = [ accounting EXCEPT
                           ![q].sum_credits_used = @ + paid,
                           ![q].sum_incl_free_credits_used = @ + 1 ]
    /\ UNCHANGED << admin_receipt, chain_receipt, rpc_key >>
    /\ CreditFrame

\* the tables are empty: no receipt, no rpc key, no request accounted
InitCredit ==
    /\ head = 1
    /\ InitFields
    /\ InitSide
    /\ inputs = { }
    /\ mode = "single"

CreditNext ==
    \/ \E admin \in BOOLEAN, uid \in Users, amount \in Amounts :
          Deposit(admin, uid, amount)
    \/ \E uid \in Users : NewKey(uid)
    \/ \E k \in 1..MaxKeys, new_period \in BOOLEAN : Accounted(k, new_period)

CreditSpec == InitCredit /\ [][CreditNext]_vars

Next ==
    \/ HeadChange
    \/ \E r \in Reqs : RejectForbidden(r)
    \/ \E r \in Reqs : SendRawTransaction(r)
    \/ \E r \in Reqs : ComputeKey(r)
    \/ \E r \in Reqs : CacheLookup(r)
    \/ \E r \in Reqs : CacheHitReturn(r)
    \/ \E r \in Reqs : RegisterOrAttach(r)
    \/ \E r \in Reqs : Wake(r)
    \/ \E r \in Reqs : Recheck(r)
    \/ \E r \in Reqs : WaitHitReturn(r)
    \/ \E r \in Reqs : UpstreamOk(r)
    \/ \E r \in Reqs : UpstreamErr(r)
    \/ \E r \in Reqs : CacheStore(r)
    \/ \E r \in Reqs : Cleanup(r)
    \/ \E r \in Reqs : Signal(r)
    \/ \E r \in Reqs : Deadline(r)

Spec == Init /\ [][Next]_vars

\* the app right after Web3ProxyApp::spawn, before any upstream has reported
\* a head: requests arrive while the head is still the default one
InitStartup == head = DEFAULT_HEAD /\ InitFields /\ InitSide /\ inputs = Inputs
               /\ mode = "single"

StartupSpec == InitStartup /\ [][Next]_vars

\* a fixed set of upstreams, each with its soft_limit, its health and the
\* distance of its head from the canonical head, all idle at first
InitBest ==
    /\ head = 1
    /\ InitFields
    /\ upstreams \in [ Rpcs -> [ soft_limit : 1..MaxSoftLimit,
                                 inflight_count : { 0 },
                                 healthy : BOOLEAN,
                                 behind : 0..2 ] ]
    /\ best_rpc = NoBest
    /\ pool_handles = [ t \in PoolTasks |-> "running" ]
    /\ frontend_handle = "running"
    /\ exit_code = NotExited
    /\ InitLimits
    /\ InitCreditIdle
    /\ InitFlattenIdle
    /\ inputs = { }
    /\ mode = "single"

BestNext ==
    \/ CallBest
    \/ Send
    \/ \E u \in Rpcs : Reply(u)

BestSpec == InitBest /\ [][BestNext]_vars

\* the tokio runtime polls a task whose wait has returned: a request whose
\* changed() can return is eventually resumed.  Deadlines, arrivals, head
\* changes and upstream answers carry no fairness.
FairSpec == Spec /\ \A r \in Reqs : WF_vars(Wake(r))

\* the router under requests that exercise the cache key: a head-independent
\* method and two texts of the same params
InitKey == InitApp /\ inputs = KeyInputs /\ mode = "single"

KeySpec == InitKey /\ [][Next]_vars

\* one batch of NumReqs requests
InitBatch == InitApp /\ inputs = Inputs /\ mode = "batch"

BatchNext ==
    \/ HeadChange
    \/ \E r \in Reqs : RejectForbidden(r)
    \/ \E r \in Reqs : SendRawTransaction(r)
    \/ \E r \in Reqs : ComputeKey(r)
    \/ \E r \in Reqs : CacheLookup(r)
    \/ \E r \in Reqs : CacheHitReturn(r)
    \/ \E r \in Reqs : RegisterOrAttach(r)
    \/ \E r \in Reqs : Wake(r)
    \/ \E r \in Reqs : Recheck(r)
    \/ \E r \in Reqs : WaitHitReturn(r)
    \/ \E r \in Reqs : UpstreamOk(r)
    \/ \E r \in Reqs : UpstreamErr(r)
    \/ \E r \in Reqs : CacheStore(r)
    \/ \E r \in Reqs : Cleanup(r)
    \/ \E r \in Reqs : Signal(r)
    \/ CollectBatch
    \/ BatchDeadline

BatchSpec == InitBatch /\ [][BatchNext]_vars

\* the router in front of upstreams that never respond, for a single request
\* per call or for one batch
InitSilent == InitApp /\ inputs = Inputs /\ mode \in { "single", "batch" }

SilentNext ==
    \/ HeadChange
    \/ \E r \in Reqs : RejectForbidden(r)
    \/ \E r \in Reqs : SendRawTransaction(r)
    \/ \E r \in Reqs : ComputeKey(r)
    \/ \E r \in Reqs : CacheLookup(r)
    \/ \E r \in Reqs : RegisterOrAttach(r)
    \/ \E r \in Reqs : Wake(r)
    \/ \E r \in Reqs : Recheck(r)
    \/ \E r \in Reqs : Deadline(r)
    \/ CollectBatch
    \/ BatchDeadline

\* the first poll of join_all (line 572) polls the future of every request
\* of the batch
BatchArrives(r) ==
    /\ mode = "batch"
    /\ RejectForbidden(r) \/ SendRawTransaction(r) \/ ComputeKey(r)

\* the tokio timer fires the timeout of lines 545 and 548, and the runtime
\* polls every task that can advance; the arrival of a single request and
\* the head changes carry no fairness
SilentSpec ==
    /\ InitSilent
    /\ [][SilentNext]_vars
    /\ \A r \in Reqs :
          /\ WF_vars(Deadline(r))
          /\ WF_vars(BatchArrives(r))
          /\ WF_vars(CacheLookup(r))
          /\ WF_vars(RegisterOrAttach(r))
          /\ WF_vars(Wake(r))
          /\ WF_vars(Recheck(r))
    /\ WF_vars(BatchDeadline)
    /\ WF_vars(CollectBatch)

\* the requests clients send in a run of PoolSpec
PoolInputs == { << "eth_sendRawTransaction", "[]" >> }

\* the private sends, the health of the private upstreams and the reloads of
\* the configuration
InitPool == InitApp /\ inputs = PoolInputs /\ mode = "single"

PoolNext ==
    \/ \E r \in Reqs : SendRawTransaction(r)
    \/ \E r \in Reqs : UpstreamOk(r)
    \/ \E r \in Reqs : UpstreamErr(r)
    \/ \E r \in Reqs : Deadline(r)
    \/ \E u \in PrivateRpcs : Degrade(u)
    \/ \E u \in PrivateRpcs : Recover(u)
    \/ \E c \in ChainIds : RejectChainId(c)
    \/ \E c \in ChainIds : BuildPools(c)
    \/ \E c \in ChainIds : BuildPoolsFails(c)
    \/ SwapBalanced
    \/ SwapBalancedFails
    \/ SwapPrivate
    \/ SwapPrivateFails
    \/ MainReturns

PoolSpec == InitPool /\ [][PoolNext]_vars

\* the tasks that the root task of main watches: the reloads of the
\* configuration, the tasks of the pools and the frontend
MainNext ==
    \/ \E c \in ChainIds : RejectChainId(c)
    \/ \E c \in ChainIds : BuildPools(c)
    \/ \E c \in ChainIds : BuildPoolsFails(c)
    \/ SwapBalanced
    \/ SwapBalancedFails
    \/ SwapPrivate
    \/ SwapPrivateFails
    \/ \E t \in PoolTasks, e \in Endings : TaskEnds(t, e)
    \/ \E e \in Endings : FrontendEnds(e)
    \/ MainReturns

MainSpec == InitPool /\ [][MainNext]_vars

\* the calls of the rate limit functions, the clock and the database
InitLimit == InitApp /\ inputs = { } /\ mode = "single"

LimitNext ==
    \/ Tick
    \/ \E k \in UserKeys, a \in BOOLEAN, rpm \in { 1, U64_MAX } :
          DbChange(k, a, rpm)
    \/ \E c \in Callers, ip \in Ips, o \in ThrottleOutcomes :
          rate_limit_by_ip(c, ip, o)
    \/ \E c \in Callers, k \in UserKeys : KeyCall(c, k)
    \/ \E c \in Callers : KeyQuery(c)
    \/ \E c \in Callers : KeyQueryFails(c)
    \/ \E c \in Callers : KeyStamp(c)
    \/ \E c \in Callers, o \in ThrottleOutcomes : KeyFinish(c, o)

LimitSpec == InitLimit /\ [][LimitNext]_vars

\* the app of any configuration: each of the two rate limiters and the
\* database is there or is not
InitAnyConfig ==
    /\ head = 1
    /\ InitFields
    /\ InitLimitCalls
    /\ configured \in [ frontend_ip_rate_limiter : BOOLEAN,
                        frontend_key_rate_limiter : BOOLEAN,
                        db_conn : BOOLEAN ]
    /\ InitCreditIdle
    /\ InitFlattenIdle
    /\ pool_handles = [ t \in PoolTasks |-> "running" ]
    /\ frontend_handle = "running"
    /\ exit_code = NotExited
    /\ upstreams = [ u \in 1..NumRpcs |->
                       [ soft_limit |-> 1, inflight_count |-> 0,
                         healthy |-> TRUE, behind |-> 0 ] ]
    /\ best_rpc = NoBest
    /\ inputs = { }
    /\ mode = "single"

AnyConfigSpec == InitAnyConfig /\ [][LimitNext]_vars

\* the subscriptions of the websocket clients
\* the subscription ids: calls of an accepted kind and of a rejected kind
IdInputs ==
    { << "eth_subscribe", NewHeadsParams >>,
      << "eth_subscribe", "[\"newPendingTransactions\"]" >>,
      << "eth_subscribe", "[\"logs\"]" >> }

InitId == InitApp /\ inputs = IdInputs /\ mode = "single"

IdNext == \E p \in SubscribeParams : eth_subscribe(p)

IdSpec == InitId /\ [][IdNext]_vars

\* the newHeads subscriptions
SubInputs ==
    { << "eth_subscribe", NewHeadsParams >>, << "upstream", "head" >> }

InitSub == InitApp /\ inputs = SubInputs /\ mode = "single"

SubNext ==
    \/ \E p \in SubscribeParams : eth_subscribe(p)
    \/ EmitHead
    \/ \E s \in Subs : TakeHead(s)
    \/ \E s \in Subs : SendNotification(s)
    \/ \E s \in Subs : Drain(s)

SubSpec == InitSub /\ [][SubNext]_vars

\* the fan-out of heads and transaction states to subscribed clients, with
\* clients that drain their sink, stop draining, disconnect or unsubscribe
TxInputs ==
    { << "eth_subscribe", p >> : p \in PendingParams }
        \cup { << "upstream", st >> : st \in TxStates }

InitFan == InitApp /\ inputs \in { SubInputs, TxInputs } /\ mode = "single"

FanNext ==
    \/ \E p \in SubscribeParams : eth_subscribe(p)
    \/ EmitHead
    \/ \E st \in TxStates : BroadcastTx(st)
    \/ \E s \in Subs : TakeHead(s)
    \/ \E s \in Subs : TakeTx(s)
    \/ \E s \in Subs : TaskLagged(s)
    \/ \E s \in Subs : TaskAborted(s)
    \/ \E s \in Subs : SendNotification(s)
    \/ \E s \in Subs : SendFails(s)
    \/ \E s \in Subs : Drain(s)
    \/ \E s \in Subs : ClientGone(s)
    \/ \E s \in Subs : Cancel(s)

FanSpec == InitFan /\ [][FanNext]_vars

\* the runtime polls a task that can make progress: each step of a fan-out
\* task is taken once it stays possible.  Nothing obliges a client to take
\* notifications, to close its connection or to unsubscribe, nor the
\* upstreams to send
TaskStep(s) ==
    \/ TakeHead(s)
    \/ TakeTx(s)
    \/ TaskLagged(s)
    \/ TaskAborted(s)
    \/ SendNotification(s)
    \/ SendFails(s)

FanFairSpec == FanSpec /\ \A s \in Subs : WF_vars(TaskStep(s))

TypeOK ==
    /\ head \in Heads \cup { DEFAULT_HEAD }
    /\ pc \in [ Reqs -> { "idle", "lookup", "hit", "entry", "waiting",
                          "recheck", "waithit", "inflight", "write",
                          "cleanup", "signal", "done" } ]
    /\ \A k \in DOMAIN incoming_requests : incoming_requests[k] \in Reqs
    /\ Len(response_cache) < RESPONSE_CACHE_CAP

(* ------------------------- vocabulary of the claims -------------------- *)

Arrived(r) == pc[r] # "idle"
Done(r) == pc[r] = "done"
Executing(r) == pc[r] \notin { "idle", "done" }
\* the request went through the catch-all arm and has a cache key
Keyed(r) == cache_key[r] # NoKey
\* the request is between the start and the end of an upstream call
Dispatching(r) == pc[r] = "inflight"
\* the request was answered from the response cache
ServedFromCache(r) == via[r] \in { "hit", "waithit" }
\* the request attached to the in-flight entry of another request
Attached(r) == other_incoming_rx[r] # NoReq
UpstreamCalls == Cardinality({ r \in Reqs : calls[r] # "none" })

StartsWith(m, prefix) ==
    Len(m) >= Len(prefix) /\ SubSeq(m, 1, Len(prefix)) = prefix

HasForbiddenPrefix(m) ==
    \/ StartsWith(m, "admin_")
    \/ StartsWith(m, "personal_")
    \/ StartsWith(m, "miner_")
    \/ StartsWith(m, "debug_set")

NonCacheableMethods ==
    { "eth_sendRawTransaction", "eth_getTransactionByHash",
      "eth_getTransactionReceipt" }

(* -------------------------------- claims -------------------------------- *)

\* C1: with a fixed head, an upstream that always succeeds and no deadline
\* expiry, requests that all carry the same cacheable method and params cause
\* exactly one upstream call in total, and every caller gets the response.
C1_SingleFlightOneCall ==
    ( /\ headChanges = 0
      /\ \A r \in Reqs : Arrived(r) => method[r] = "eth_blockNumber"
      /\ \A r \in Reqs : via[r] \notin { "failed", "timeout" } )
    => /\ UpstreamCalls <= 1
       /\ \A r \in Reqs : Done(r) => result[r].ok

\* C2: for every cache key at most one request is between the start and the
\* end of an upstream dispatch for that key.
C2_AtMostOneDispatchPerKey ==
    \A r1, r2 \in Reqs :
        ( /\ r1 # r2
          /\ Keyed(r1) /\ Keyed(r2)
          /\ Dispatching(r1) /\ Dispatching(r2) )
        => cache_key[r1] # cache_key[r2]

\* C3 (as stated): a request that attached to an in-flight request completes
\* with the outcome of the owner: the owner's response when the owner
\* succeeded, a failure when the owner failed.
C3_WaiterSharesOwnerOutcome ==
    \A w \in Reqs :
        ( /\ Done(w) /\ Attached(w) /\ via[w] # "timeout"
          /\ Done(other_incoming_rx[w]) )
        => IF result[other_incoming_rx[w]].ok
           THEN result[w] = result[other_incoming_rx[w]]
           ELSE ~result[w].ok

\* C3 (amended): a request that attached to an in-flight request and was not
\* cut by its own deadline either finds a response cached under its key after
\* waking and returns that response, which a successful dispatch for the key
\* produced (the owner's, when the owner's is the only one), or finds nothing
\* cached and completes with the outcome of an upstream call of its own.
C3_WaiterOutcome ==
    \A w \in Reqs :
        ( Done(w) /\ Attached(w) /\ via[w] # "timeout" )
        => /\ via[w] = "waithit" =>
                /\ result[w].ok
                /\ calls[w] = "none"
                /\ << cache_key[w], result[w].resp >> \in dispatched
                /\ ( /\ result[other_incoming_rx[w]].ok
                     /\ { d \in dispatched : d[1] = cache_key[w] }
                          = { << cache_key[w], result[other_incoming_rx[w]].resp >> } )
                   => result[w] = result[other_incoming_rx[w]]
           /\ via[w] # "waithit" =>
                /\ calls[w] # "none"
                /\ via[w] \in { "dispatch", "failed" }
                /\ result[w].ok => result[w].resp.id = w

\* C3 witness: the owner failed, the waiter made its own call and succeeded.
C3_Witness ==
    \E w \in Reqs :
        /\ Done(w) /\ Attached(w)
        /\ via[other_incoming_rx[w]] = "failed"
        /\ via[w] = "dispatch" /\ result[w].ok

\* C4: for the head-dependent method, a request that completes after the head
\* moved away from H is not answered with a response cached under H.
C4_NoStaleAfterHeadChange ==
    \A r \in Reqs :
        ( Done(r) /\ method[r] = "eth_blockNumber" /\ ServedFromCache(r) )
        => cache_key[r][1] = doneHead[r]

\* C5: the response returned to a request carries that request's own id.
C5_OwnIdEchoed ==
    \A r \in Reqs : ( Done(r) /\ result[r].ok ) => result[r].resp.id = r

\* C6: a request waiting on an in-flight entry whose owner has finished
\* (returned, failed or dropped by its deadline) eventually stops waiting.
C6_WaitersWoken ==
    \A w \in Reqs :
        ( pc[w] = "waiting" /\ Done(other_incoming_rx[w]) )
        ~> ( pc[w] # "waiting" )

\* C6 witness: a waiter resumed after its owner was dropped by the deadline
\* or failed.
C6_Witness ==
    \E w \in Reqs :
        /\ pc[w] = "recheck"
        /\ via[other_incoming_rx[w]] \in { "failed", "timeout" }

\* C7: a key for which no request is executing has no entry in the in-flight
\* table.
C7_NoEntryWithoutRequest ==
    \A k \in DOMAIN incoming_requests :
        \E r \in Reqs : Executing(r) /\ cache_key[r] = k

\* C8: every entry of the response cache was written by a dispatch that
\* returned successfully for that key; failed and cut-off dispatches add none.
C8_CacheOnlyFromSuccess ==
    \A i \in 1..Len(response_cache) :
        /\ << response_cache[i].key, response_cache[i].resp >> \in dispatched
        /\ \E r \in Reqs :
              /\ response_cache[i].resp.id = r
              /\ cache_key[r] = response_cache[i].key
              /\ pc[r] \in { "cleanup", "signal", "done" }
              /\ via[r] \in { "none", "dispatch" }

\* C8 witness: a dispatch failed or was cut off for a key and the cache holds
\* no entry for that key while it holds another entry.
C8_Witness ==
    \E r \in Reqs :
        /\ via[r] \in { "failed", "timeout" }
        /\ calls[r] # "none"
        /\ Keyed(r)
        /\ ~CacheHas(response_cache, cache_key[r])
        /\ Len(response_cache) > 0

\* C9: a request whose method starts with admin_, personal_, miner_ or
\* debug_set is rejected: it makes no upstream call and never reaches the
\* cache or the in-flight table.
C9_ForbiddenPrefixRejected ==
    \A r \in Reqs :
        ( Arrived(r) /\ HasForbiddenPrefix(method[r]) )
        => /\ Done(r) /\ via[r] = "rejected"
           /\ calls[r] = "none"
           /\ ~Keyed(r)

\* C10: responses to eth_sendRawTransaction, eth_getTransactionByHash and
\* eth_getTransactionReceipt are never written to the cache nor served from
\* it; every such request that is answered made its own upstream call.
C10_NonCacheableBypassCache ==
    /\ \A i \in 1..Len(response_cache) :
          response_cache[i].key[2] \notin NonCacheableMethods
    /\ \A r \in Reqs :
          ( method[r] \in NonCacheableMethods )
          => /\ ~ServedFromCache(r)
             /\ ( Done(r) /\ result[r].ok ) => calls[r] # "none"

(* C16: after any sequence of cacheable requests, head changes and evictions
   the response cache never holds more than RESPONSE_CACHE_CAP entries; the
   write lock is held from the insert to the pop_front, so every state a
   request can observe is one where the write has completed *)
C16_CacheBounded == Len(response_cache) <= RESPONSE_CACHE_CAP

\* a request wrote its response to the cache and the entry has since been
\* evicted by the write of another request, whose entry the cache holds
C16_Witness ==
    \E r \in Reqs :
        /\ Done(r)
        /\ result[r].ok
        /\ via[r] = "dispatch"
        /\ Keyed(r)
        /\ ~ CacheHas(response_cache, cache_key[r])
        /\ Len(response_cache) >= 1

\* the methods whose result does not depend on the head block
HeadIndependentMethods == { "eth_chainId", "net_version" }

\* the params text without the whitespace between its tokens (the params of
\* the model hold no string literal, where a space would be significant)
RECURSIVE StripSpaces(_)
StripSpaces(p) ==
    IF Len(p) = 0
    THEN ""
    ELSE LET c == SubSeq(p, 1, 1)
             rest == StripSpaces(SubSeq(p, 2, Len(p)))
         IN  IF c = " " THEN rest ELSE c \o rest

(* C11: eth_chainId and net_version are answered locally, without an upstream
   call, and the cache key of such a request carries no head hash *)
C11_HeadIndependentLocal ==
    \A r \in Reqs :
        ( Arrived(r) /\ method[r] \in HeadIndependentMethods )
        => /\ calls[r] = "none"
           /\ cache_key[r][1] \notin Heads

(* C12: two requests with the same method whose params are the same JSON up
   to whitespace compute, under the same head, the same cache key *)
C12_EqualParamsShareKey ==
    \A r1, r2 \in Reqs :
        ( /\ Keyed(r1) /\ Keyed(r2)
          /\ method[r1] = method[r2]
          /\ StripSpaces(params[r1]) = StripSpaces(params[r2])
          /\ cache_key[r1][1] = cache_key[r2][1] )
        => cache_key[r1] = cache_key[r2]

(* C14: a successful batch of NumReqs requests yields exactly NumReqs
   responses, and response i is the response that the routing of request i
   produced, in whatever order the upstream calls completed; a response that
   request i received from its own upstream call is the answer to request i *)
C14_BatchInOrder ==
    batch_result.ok
    => /\ Len(batch_result.resps) = NumReqs
       /\ \A i \in Reqs :
             /\ result[i].ok
             /\ batch_result.resps[i] = result[i].resp
             /\ via[i] = "dispatch" => batch_result.resps[i].id = i

\* a successful batch in which the upstream call of a later request was
\* answered (under head 1) before the call of an earlier request (under
\* head 2, the head after the only head change)
C14_Witness ==
    /\ batch_result.ok
    /\ headChanges = 1
    /\ head = 2
    /\ \E i, j \in Reqs :
          /\ i < j
          /\ via[i] = "dispatch" /\ via[j] = "dispatch"
          /\ batch_result.resps[i].body = 2
          /\ batch_result.resps[j].body = 1

\* the top-level call that carries request r has returned a timeout error
TimedOut(r) ==
    IF mode = "single"
    THEN Done(r) /\ result[r] = Err("timeout")
    ELSE ~ batch_result.ok /\ batch_result.err = "timeout"

(* C15: when the upstreams never respond, a request that is suspended in its
   own upstream call or waiting on the in-flight call of another request
   leads to its top-level call (the single request, or the batch it is part
   of) completing with a timeout error *)
C15_SilentUpstreamTimesOut ==
    \A r \in Reqs : ( pc[r] \in { "inflight", "waiting" } ) ~> TimedOut(r)

\* a single request that attached to the in-flight call of another request
\* timed out without ever making an upstream call of its own
C15_Witness ==
    /\ mode = "single"
    /\ \E r \in Reqs :
          /\ Attached(r)
          /\ calls[r] = "none"
          /\ TimedOut(r)

(* C13: for every eth_sendRawTransaction that was answered, each configured
   private upstream has received the request, once, before the response was
   returned *)
C13_BroadcastReachesAll ==
    \A r \in Reqs :
        ( Done(r) /\ IsSendRaw(method[r]) /\ result[r].ok )
        => targets[r] = PrivateRpcs

(* C17: after a reload was rejected for its chain id, neither pool has been
   replaced, the config task still waits for later configurations and the
   process is running *)
C17_RejectedReloadKeepsAppUp ==
    reload_result = "rejected"
    => /\ balanced_rpcs = applied
       /\ private_rpcs = applied
       /\ config_task # "ended"
       /\ process = "running"

(* C18: a request in progress never finds the balanced set of one
   configuration together with the private set of another, and after a
   reload that failed both sets are those of the last applied configuration *)
C18_PoolsSwappedTogether ==
    /\ ( \E r \in Reqs : Executing(r) ) => balanced_rpcs = private_rpcs
    /\ reload_result = "failed"
       => balanced_rpcs = applied /\ private_rpcs = applied

\* the value of the digit c, a string of one character
IsHexDigit(c) == \E d \in 0..15 : HexDigit(d) = c
HexValue(c) == CHOOSE d \in 0..15 : HexDigit(d) = c

\* the number that a string of hex digits denotes
RECURSIVE HexNumber(_)
HexNumber(t) ==
    IF Len(t) = 0
    THEN 0
    ELSE 16 * HexNumber(SubSeq(t, 1, Len(t) - 1))
         + HexValue(SubSeq(t, Len(t), Len(t)))

\* the string is 0x followed by one or more hex digits, without leading zero
WellFormedId(t) ==
    /\ Len(t) >= 3
    /\ StartsWith(t, "0x")
    /\ \A i \in 3..Len(t) : IsHexDigit(SubSeq(t, i, i))
    /\ SubSeq(t, 3, 3) # "0"

IdNumber(t) == HexNumber(SubSeq(t, 3, Len(t)))

(* C19: the ids that eth_subscribe allocated are 0x-prefixed hex numbers,
   the first is 0x1, each is greater than the one allocated before it, and
   they are pairwise distinct, the ids of rejected calls included *)
C19_SubscriptionIdsUnique ==
    /\ \A i \in 1..Len(subscriptions) : WellFormedId(subscriptions[i].id)
    /\ Len(subscriptions) >= 1 => subscriptions[1].id = "0x1"
    /\ \A i \in 1..(Len(subscriptions) - 1) :
          IdNumber(subscriptions[i].id) < IdNumber(subscriptions[i + 1].id)
    /\ \A i, j \in 1..Len(subscriptions) :
          i < j => subscriptions[i].id # subscriptions[j].id

\* a rejected call took an id and a later accepted call got another one, and
\* the tenth call got an id with a hex digit above 9
C19_Witness ==
    /\ Len(subscriptions) >= 10
    /\ subscriptions[10].id = "0xa"
    /\ \E i, j \in 1..Len(subscriptions) :
          /\ i < j
          /\ ~ subscriptions[i].ok
          /\ subscriptions[j].ok

\* the notifications that the client of the task in slot s has received
Received(s) ==
    IF sub_drained[s] = Dropped THEN << >>
    ELSE SubSeq(sub_sink[s], 1, sub_drained[s])

\* the results in these notifications
Notified(s) == [ i \in 1..Len(Received(s)) |-> Received(s)[i].result ]

\* the task has taken everything its stream holds and the client everything
\* the task sent
CaughtUp(s) ==
    /\ sub_pc[s] = "next"
    /\ sub_seen[s] = IF TaskParams(s) = NewHeadsParams
                     THEN head_version ELSE Len(tx_log)
    /\ sub_drained[s] = Len(sub_sink[s])

(* C20: once the tracker has emitted three heads after a client subscribed
   to newHeads and the task of the subscription and the client have caught
   up, the client has received exactly three notifications, carrying these
   three heads in order *)
C20_ThreeHeadsThreeNotifications ==
    \A s \in Spawned :
        ( /\ TaskParams(s) = NewHeadsParams
          /\ head_block = sub_start[s] + 3
          /\ CaughtUp(s) )
        => Notified(s) = << sub_start[s] + 1, sub_start[s] + 2,
                            sub_start[s] + 3 >>

(* ------------------ order, isolation and cancellation ------------------ *)

\* the number, in the order of the upstream stream, of the event that a
\* notification of the task in slot s reports: the head number, or the
\* position of the transaction state in the broadcast
EventNo(s, msg) ==
    IF TaskParams(s) = NewHeadsParams THEN msg.result ELSE msg.result[2]

(* C21: the notifications that the client of one subscription has received
   report upstream events in the order of the stream, none of them twice:
   the heads of a newHeads subscriber increase strictly and so do the
   broadcast positions of a pending-transaction subscriber *)
C21_DeliveredInStreamOrder ==
    \A s \in Spawned :
        \A i, j \in 1..Len(Received(s)) :
            i < j => EventNo(s, Received(s)[i]) < EventNo(s, Received(s)[j])

\* the client of a newHeads subscription has received two notifications or
\* more
C21_Witness ==
    \E s \in Spawned :
        /\ TaskParams(s) = NewHeadsParams
        /\ Len(Received(s)) >= 2

\* subscription t has been cancelled, or its client does not drain: its sink
\* is full and its task is suspended in send_async
Hindered(t) ==
    \/ sub_aborted[t] # NotAborted
    \/ sub_pc[t] = "send" /\ InSink(t) = SinkCap

\* subscription s is live, its client keeps draining, and nothing is left on
\* its way: the task has ended or has taken everything its stream holds,
\* and the client has taken everything out of the sink
Quiet(s) ==
    /\ sub_aborted[s] = NotAborted
    /\ sub_drained[s] = Len(sub_sink[s])
    /\ \/ sub_pc[s] = "ended"
       \/ CaughtUp(s)

\* the client of s has received a notification of every event since it
\* subscribed (of every Pending or Orphaned state, for pending transactions)
ReceivedEvery(s) ==
    LET got == { Notified(s)[i] : i \in 1..Len(Notified(s)) }
    IN  IF TaskParams(s) = NewHeadsParams
        THEN \A e \in (sub_start[s] + 1)..head_block : e \in got
        ELSE \A i \in (sub_start[s] + 1)..Len(tx_log) :
                tx_log[i].state # "Confirmed"
                => TxResult(TaskParams(s), tx_log[i]) \in got

(* C22: when one subscription is cancelled or its client never drains its
   sink, every other subscription whose client keeps draining still
   receives every event *)
C22_OthersReceiveEveryEvent ==
    \A s, t \in Spawned :
        ( /\ s # t
          /\ Hindered(t)
          /\ Quiet(s) )
        => ReceivedEvery(s)

\* the notifications that the task of slot s has produced: those in the
\* sink and the one it holds in send_async
Produced(s) ==
    sub_sink[s] \o sub_msg[s]

\* no notification of s reports an event that arrived after its cancel
NothingAfterCancel(s) ==
    ( s \in Spawned /\ sub_aborted[s] # NotAborted )
    => \A i \in 1..Len(Produced(s)) :
            EventNo(s, Produced(s)[i]) <= sub_aborted[s]

(* C23: after the abort handle of a subscription fires, no notification of
   an event that arrived after the cancel is produced for that subscriber,
   and the task of the subscription ends *)
C23_CancelStopsTask ==
    \A s \in Subs :
        /\ [] NothingAfterCancel(s)
        /\ ( s \in Spawned /\ sub_aborted[s] # NotAborted )
              ~> ( sub_pc[s] = "ended" )

(* C24: no task waits on the sink of its client: when the sink is full and
   cannot accept a notification the subscription is cancelled, so no task
   of a connected client is suspended in send_async on a full sink *)
C24_FullSinkCancels ==
    \A s \in Spawned :
        ~ ( /\ sub_drained[s] # Dropped
            /\ InSink(s) = SinkCap
            /\ sub_pc[s] = "send" )

\* the transaction states that the receiver of s has taken from the
\* broadcast, oldest first
TakenStates(s) ==
    [ i \in 1..(sub_seen[s] - sub_start[s]) |-> tx_log[sub_start[s] + i] ]

\* a notification for each of these states that is not Confirmed
Reportable(st) == st.state # "Confirmed"

ExpectedResults(s) ==
    LET kept == SelectSeq(TakenStates(s), Reportable)
    IN  [ i \in 1..Len(kept) |-> TxResult(TaskParams(s), kept[i]) ]

(* C25: for a pending-transaction subscription (hash, full or raw) whose
   client is connected, the notifications produced are exactly one for each
   Pending and each Orphaned state that the subscription received, in the
   order received, and none for a Confirmed state *)
C25_ConfirmedFilteredOthersOnce ==
    \A s \in Spawned :
        ( TaskParams(s) \in PendingParams /\ sub_drained[s] # Dropped )
        => [ i \in 1..Len(Produced(s)) |-> Produced(s)[i].result ]
               = ExpectedResults(s)

\* a subscription has received a Confirmed state and a state that is not
\* Confirmed, and its client has received the one notification
C25_Witness ==
    \E s \in Spawned :
        /\ TaskParams(s) \in PendingParams
        /\ sub_drained[s] = 1
        /\ Len(Produced(s)) = 1
        /\ \E i, j \in 1..Len(TakenStates(s)) :
              /\ TakenStates(s)[i].state = "Confirmed"
              /\ TakenStates(s)[j].state # "Confirmed"

(* ------------------------------- startup ------------------------------- *)

(* C26: a request that needs head context and arrives before the tracker has
   published a canonical head is rejected with NOT_SYNCED: it is not handed
   to an upstream pool, and nothing is cached under the default head *)
C26_NotSyncedBeforeFirstHead ==
    /\ \A r \in Reqs :
          ( Keyed(r) /\ cache_key[r][1] = DEFAULT_HEAD )
          => /\ pc[r] = "done"
             /\ result[r] = Err("NOT_SYNCED")
             /\ calls[r] = "none"
    /\ \A i \in 1..Len(response_cache) :
          response_cache[i].key[1] # DEFAULT_HEAD

(* -------------------------- upstream selection -------------------------- *)

\* the upstreams are of equal health: all Healthy, all at the canonical head
EqualHealth(ups) == \A u \in Rpcs : ups[u].healthy /\ ups[u].behind = 0

\* upstream b has the highest soft_limit, and the lowest id among those of
\* that soft_limit
HighestSoftLimit(ups, b) ==
    /\ b \in Rpcs
    /\ \A v \in Rpcs \ { b } :
          \/ ups[b].soft_limit > ups[v].soft_limit
          \/ ups[b].soft_limit = ups[v].soft_limit /\ b < v

(* C27: for upstreams of equal health, whatever their in-flight counts,
   best() returns the upstream with the highest soft_limit, and among
   upstreams of equal soft_limit the one with the lowest id *)
C27_BestIsHighestSoftLimit ==
    ( best_rpc # NoBest /\ EqualHealth(best_rpc.seen) )
    => HighestSoftLimit(best_rpc.seen, best_rpc.rpc)

\* the upstreams carry the same load: equal inflight_count / soft_limit
EqualLoad(ups) ==
    \A u, v \in Rpcs :
        ups[u].inflight_count * ups[v].soft_limit
            = ups[v].inflight_count * ups[u].soft_limit

(* C27, amended: for upstreams of equal health and of equal load
   (inflight_count / soft_limit, as when no request is in flight), best()
   returns the upstream with the highest soft_limit, and among upstreams of
   equal soft_limit the one with the lowest id *)
C27_BestAmongEqualLoad ==
    ( /\ best_rpc # NoBest
      /\ EqualHealth(best_rpc.seen)
      /\ EqualLoad(best_rpc.seen) )
    => HighestSoftLimit(best_rpc.seen, best_rpc.rpc)

\* best() was called on idle upstreams of equal health and pairwise distinct
\* soft_limit, of which the highest is not that of the lowest id
C27_Witness ==
    /\ best_rpc # NoBest
    /\ EqualHealth(best_rpc.seen)
    /\ EqualLoad(best_rpc.seen)
    /\ \A u, v \in Rpcs :
          u # v => best_rpc.seen[u].soft_limit # best_rpc.seen[v].soft_limit
    /\ best_rpc.rpc # 1

(* ------------------------------ exit code ------------------------------ *)

\* a task that main watches has ended with an error or a panic
SomeTaskFailed ==
    \/ \E t \in PoolTasks : pool_handles[t] \in { "err", "panic" }
    \/ ConfigHandle = "err"
    \/ frontend_handle \in { "err", "panic" }

(* C30: when a task of a pool, the config task or the frontend has ended
   with an error, the process does not exit with code 0: code 0 is that of a
   clean shutdown only *)
C30_TaskErrorExitsNonZero ==
    ( process = "exited" /\ SomeTaskFailed ) => exit_code # 0

(* --------------------------- frontend limits --------------------------- *)

(* C28: a call for which the rate limiter returned an error is allowed:
   rate_limit_by_ip returns AllowedIp(ip), and rate_limit_by_key, which asks
   the limiter for a known key with a finite limit only, returns
   AllowedUser(user_id) *)
C28_LimiterErrorAllows ==
    \A c \in Callers :
        ( limit_calls[c].pc = "done" /\ limit_calls[c].throttle = "Err" )
        => /\ limit_calls[c].kind = "ip"
              => limit_calls[c].result = << "AllowedIp", limit_calls[c].arg >>
           /\ limit_calls[c].kind = "key"
              => limit_calls[c].result
                     = << "AllowedUser", limit_calls[c].user_data.user_id >>

\* the limiter has failed on a call by ip and on a call by a known key with
\* a finite limit
C28_Witness ==
    \E c, d \in Callers :
        /\ limit_calls[c].pc = "done" /\ limit_calls[c].kind = "ip"
        /\ limit_calls[c].throttle = "Err"
        /\ limit_calls[d].pc = "done" /\ limit_calls[d].kind = "key"
        /\ limit_calls[d].throttle = "Err"
        /\ limit_calls[d].user_data.user_id # 0
        /\ limit_calls[d].user_data.user_count_per_period = 1

\* the call of caller c by key has its user record
HasUserData(c) ==
    limit_calls[c].kind = "key" /\ limit_calls[c].user_data # NoUser

\* a call that found a record that had not expired (now <= expires_at) did
\* not query the database
AnswersFromCacheWhileFresh ==
    \A c \in Callers :
        ( /\ limit_calls[c].kind = "key"
          /\ limit_calls[c].saw # NoUser
          /\ limit_calls[c].at <= limit_calls[c].saw.expires_at )
        => ( ~ limit_calls[c].queried /\ limit_calls[c].pc # "query" )

\* a call that found no record, or an expired one, asks the database
RequeriesAfterExpiry ==
    \A c \in Callers :
        ( /\ HasUserData(c)
          /\ \/ limit_calls[c].saw = NoUser
             \/ limit_calls[c].at > limit_calls[c].saw.expires_at )
        => limit_calls[c].queried

\* what the row of key k says about its user
RowData(k) ==
    IF user_keys[k].active
    THEN << k, IF user_keys[k].requests_per_minute = U64_MAX
               THEN NoLimit ELSE user_keys[k].requests_per_minute >>
    ELSE << 0, 0 >>

\* a call made more than the lifetime of the cache after the last change of
\* the row of its key works with what the row says
ChangeTakesEffect ==
    \A c \in Callers :
        ( /\ HasUserData(c)
          /\ limit_calls[c].at
                > user_keys[limit_calls[c].arg].changed_at + USER_CACHE_TTL )
        => << limit_calls[c].user_data.user_id,
              limit_calls[c].user_data.user_count_per_period >>
               = RowData(limit_calls[c].arg)

(* C29: rate_limit_by_key answers from the cached record without a query
   while the record has not expired, asks the database again on the first
   call after the expiry, and so a change of a key in the database takes
   effect on every call made more than the lifetime of the cache after the
   change *)
C29_CacheLifetimeBoundsStaleness ==
    /\ AnswersFromCacheWhileFresh
    /\ RequeriesAfterExpiry
    /\ ChangeTakesEffect

(* ------------------- locks and suspension points ------------------- *)

(* C31: no request holds the lock of the response cache or of an entry of the
   in-flight table while it awaits an upstream call or the signal of another
   request: every lock taken in proxy_web3_rpc_request is released before
   the next suspension point *)
C31_NoLockAcrossAwait ==
    \A r \in Reqs : Suspended(r) => LocksHeld(r) = { }

\* a waiter took the read guard of line 720, missed the cache and is now
\* suspended in its own upstream call, while another request is suspended too
C31_Witness ==
    \E r, q \in Reqs :
        /\ q # r
        /\ pc[r] = "inflight"
        /\ other_incoming_rx[r] # NoReq
        /\ Suspended(q)

(* ------------------ who removes an in-flight entry ------------------ *)

(* C33: an in-flight entry is only ever removed by the request that
   registered it: whenever an entry leaves the in-flight table, the step is
   the clean-up (line 767) of the request the entry belongs to, never the
   cache hit or the finished wait of another request *)
C33_RemovedOnlyByRegistrant ==
    [][ \A k \in DOMAIN incoming_requests :
            k \notin DOMAIN incoming_requests'
                => /\ pc[incoming_requests[k]] = "cleanup"
                   /\ pc'[incoming_requests[k]] = "signal" ]_vars

(* ---------------- the head a cached response belongs to ---------------- *)

(* C34: every entry of the response cache stored under a key of head H holds
   a response that the upstream gave while the canonical head was H: a head
   change during the dispatch never leaves a response stored under the head
   hash read when the request arrived *)
C34_StoredUnderAnswerHead ==
    \A i \in 1..Len(response_cache) :
        response_cache[i].key[1] = response_cache[i].resp.body

(* ------------------------- a batch that fails ------------------------- *)

\* the requests of the batch whose own routing returned an error: a forbidden
\* method (line 633) or a failed upstream call (the `?` of lines 743-751)
FailedInBatch == { r \in Reqs : via[r] \in { "rejected", "failed" } }

\* the batch call has returned
BatchReturned == mode = "batch" /\ batch_result # NoBatchResult

\* the batch returned the error of its lowest-indexed failed request and no
\* responses, and every request of it had run to its own completion
FirstFailureAfterAll ==
    /\ ~ batch_result.ok
    /\ batch_result.resps = << >>
    /\ \E f \in FailedInBatch :
          /\ \A g \in FailedInBatch : f <= g
          /\ batch_result.err = result[f].err
    /\ \A r \in Reqs : via[r] # "timeout"

(* C35 as stated: if any request of a batch fails, the batch call returns an
   error and no responses, the error is that of the lowest-indexed failed
   request, and it is returned only after every request of the batch has run
   to completion *)
C35_BatchErrorIsFirstFailure ==
    ( BatchReturned /\ FailedInBatch # { } ) => FirstFailureAfterAll

(* C35, amended: the same, for a batch call that returns before the deadline
   of proxy_web3_rpc; when the deadline expires first the call returns the
   timeout error instead, with requests of the batch still unfinished *)
C35_BatchErrorBeforeDeadline ==
    ( BatchReturned /\ FailedInBatch # { } )
    => IF batch_result.err = "timeout"
       THEN /\ ~ batch_result.ok
            /\ batch_result.resps = << >>
            /\ \E r \in Reqs : via[r] = "timeout"
       ELSE FirstFailureAfterAll

\* a returned batch in which two requests failed with different errors:
\* the earlier one by a failed upstream call, the later
\* one by a forbidden method
C35_Witness ==
    /\ BatchReturned
    /\ batch_result.err = "upstream"
    /\ \E f, g \in FailedInBatch :
          /\ f < g
          /\ result[f].err = "upstream"
          /\ result[g].err = "unimplemented"

(* --------------------- what flatten_handles returns --------------------- *)

\* the handles whose task ended with a task error or a join error
Failures == { h \in DOMAIN handles : handles[h] \in { "err", "panic" } }

\* flatten_handles returned an error only for a handle that ended with one,
\* and Ok only when every handle of the set has ended Ok
FlattenReturnsRight ==
    /\ flatten.result = "err" => flatten.taken \cap Failures # { }
    /\ flatten.result = "ok"
           => \A h \in DOMAIN handles : handles[h] = "ok"

(* C38: flatten_handles returns an error as soon as one of its handles has
   ended with a task error or a join error, without waiting for the handles
   that are still running, and returns Ok only after every handle has ended
   successfully, so at once for an empty set *)
C38_FlattenHandles ==
    /\ [] FlattenReturnsRight
    /\ ( Failures # { } ) ~> ( flatten.result = "err" )
    /\ ( \A h \in DOMAIN handles : handles[h] = "ok" )
           ~> ( flatten.result = "ok" )

\* flatten_handles has returned the error of one handle while another handle
\* of its set is still running
C38_Witness ==
    /\ flatten.result = "err"
    /\ \E h \in DOMAIN handles : handles[h] = "running"

(* ----------------------------- the balance ----------------------------- *)

RECURSIVE SumRows(_, _, _)
\* the plain sum of one column over the rows of a table picked by keep
SumRows(table, keep, column) ==
    IF table = << >>
    THEN 0
    ELSE ( IF keep[Head(table)] THEN column[Head(table)] ELSE 0 )
         + SumRows(Tail(table), keep, column)

\* what the receipts of a user add up to
PlainDeposits(uid) ==
    LET receipts == admin_receipt \o chain_receipt
        rows == { receipts[i] : i \in DOMAIN receipts }
    IN  SumRows(receipts,
                [ r \in rows |-> r.deposit_to_user_id = uid ],
                [ r \in rows |-> r.amount ])

\* the accounting rows of the rpc keys of a user
OwnRows(uid) ==
    [ r \in { accounting[i] : i \in DOMAIN accounting }
        |-> rpc_key[r.rpc_key_id].user_id = uid ]

\* what the accounting rows of the rpc keys of a user add up to
PlainSpent(uid) ==
    SumRows(accounting, OwnRows(uid),
            [ r \in { accounting[i] : i \in DOMAIN accounting }
                |-> r.sum_incl_free_credits_used ])

(* C39: the total_deposits and total_spent that Balance::try_from_db
   computes for a user are the plain sums over the receipts of the user and
   over the accounting rows of the user: they do not depend on how many rows
   the other joined tables hold for the user *)
C39_TotalsArePlainSums ==
    \A uid \in Users :
        /\ try_from_db(uid).total_deposits = PlainDeposits(uid)
        /\ try_from_db(uid).total_spent = PlainSpent(uid)

\* the balance that the query gives a user
Balance(uid) == try_from_db(uid)

\* a step accounts a request of user uid who has no paid balance left
FreeRequest(uid) ==
    /\ remaining(Balance(uid)) <= 0
    /\ PlainSpent(uid)' > PlainSpent(uid)

\* a request served without paid balance adds to total_spent, not to
\* total_spent_paid_credits, and does not reduce remaining()
FreeRequestsAreFree ==
    \A uid \in Users :
        FreeRequest(uid)
        => /\ Balance(uid)'.total_spent > Balance(uid).total_spent
           /\ Balance(uid)'.total_spent_paid_credits
                  = Balance(uid).total_spent_paid_credits
           /\ remaining(Balance(uid))' >= remaining(Balance(uid))

\* remaining() is total_deposits minus total_spent_paid_credits, and the
\* paid credits spent are part of all the credits spent
RemainingIsDepositsLessPaid ==
    \A uid \in Users :
        /\ remaining(Balance(uid))
             = Balance(uid).total_deposits
                 - Balance(uid).total_spent_paid_credits
        /\ Balance(uid).total_spent_paid_credits <= Balance(uid).total_spent

(* C32: Balance.remaining() is always total_deposits minus
   total_spent_paid_credits; a request served while its user has no paid
   balance adds to total_spent and not to total_spent_paid_credits, so it
   never reduces remaining(); total_spent_paid_credits never exceeds
   total_spent *)
C32_RemainingCountsPaidOnly ==
    /\ [] RemainingIsDepositsLessPaid
    /\ [][ FreeRequestsAreFree ]_vars

\* a user with receipts has made a request without paid balance and one with
\* paid balance
C32_Witness ==
    \E uid \in Users :
        /\ Balance(uid).total_deposits > 0
        /\ Balance(uid).total_spent_paid_credits > 0
        /\ Balance(uid).total_spent_paid_credits < Balance(uid).total_spent

(* ------------------------ what the cache evicts ------------------------ *)

\* the keys of the entries of a cache
CachedKeys(cache) == { cache[i].key : i \in 1..Len(cache) }

(* C40: the response cache evicts only when an insert takes it above
   RESPONSE_CACHE_CAP entries, so that it can hold RESPONSE_CACHE_CAP
   entries: whenever a step removes an entry, the cache held
   RESPONSE_CACHE_CAP entries before the step, the entry removed is the one
   inserted earliest, and the entry just written stays *)
C40_EvictsOnlyAboveCap ==
    [][ CachedKeys(response_cache) \ CachedKeys(response_cache') # { }
            => /\ Len(response_cache) = RESPONSE_CACHE_CAP
               /\ CachedKeys(response_cache) \ CachedKeys(response_cache')
                      = { response_cache[1].key }
               /\ response_cache' # << >> ]_vars

(* -------------------- every configuration of the app -------------------- *)

(* C36: in every configuration (each rate limiter and the database there or
   not) and for every outcome of the rate limiter, the frontend functions
   rate_limit_by_ip and rate_limit_by_key return a value, an allowed
   identity or an error response, and never reach the panic of
   unimplemented! or todo! *)
C36_NeverPanics ==
    \A c \in Callers :
        limit_calls[c].pc = "done"
        => limit_calls[c].returned[1] \in { "Ok", "Err" }

(* C37: for an api key without an active row in the database,
   rate_limit_by_key returns UnknownKey without a call of the rate limiter,
   whether the record was fetched by this call or came from the cache; for a
   key whose requests_per_minute is the sentinel of no limit it returns
   AllowedUser without a call of the rate limiter *)
C37_NoLimiterForUnknownOrUnlimited ==
    \A c \in Callers :
        ( limit_calls[c].pc = "done" /\ HasUserData(c) )
        => /\ limit_calls[c].user_data.user_id = 0
                => /\ limit_calls[c].result = << "UnknownKey" >>
                   /\ limit_calls[c].throttle = "none"
           /\ ( /\ limit_calls[c].user_data.user_id # 0
                /\ limit_calls[c].user_data.user_count_per_period = NoLimit )
                => /\ limit_calls[c].result
                        = << "AllowedUser", limit_calls[c].user_data.user_id >>
                   /\ limit_calls[c].throttle = "none"

====
